---- MODULE Spec2Model ----
(***************************************************************************)
(* Token and credential lifecycle of go-gin-clean-starter: the users and   *)
(* refresh_tokens tables, userService (Register, SendVerificationEmail,    *)
(* VerifyEmail, Verify, RefreshToken, RevokeRefreshToken, Delete) and      *)
(* authService (Login, RefreshToken, Logout).                              *)
(*                                                                         *)
(* Strings of the program are modelled as follows.                         *)
(*   - an email is a sequence of one-character strings;                    *)
(*   - a refresh-token string is a natural number: 0 is the empty string,  *)
(*     n > 0 is the n-th random string the process has drawn;              *)
(*   - a user id is a natural number: 0 is uuid.Nil, n > 0 the n-th uuid;  *)
(*   - an instant is a natural number of clock ticks, 0 is time.Time{}.    *)
(* Every store call of a handler takes a set f of step names: the steps    *)
(* whose SQL statement returns an error to the caller.                     *)
(*                                                                         *)
(* Spec runs the token flows one call at a time.  AccountSpec does the     *)
(* same for the account flows of userService: Register with an image,      *)
(* Update, and verification tokens that makeVerificationEmail did not      *)
(* build; its logins start while no refresh token is stored, one session   *)
(* at a time.  RaceSpec runs Register and Update calls of several          *)
(* goroutines statement by statement, the handlers that write users        *)
(* without a transaction.                                                  *)
(*                                                                         *)
(* JwtSpec signs access tokens, forges others and hands them to            *)
(* ValidateToken, GetUserIDByToken and GetRoleByToken of both versions of  *)
(* jwtService.  SessionSpec holds an access token while the session that   *)
(* issued it is refreshed, revoked or deleted.  CodecSpec encrypts with    *)
(* AESEncrypt, damages ciphertexts and decrypts them.  PageSpec calls      *)
(* TotalPage.  SweepSpec adds DeleteExpired to the token flows.            *)
(* RefreshRaceSpec runs userService.RefreshToken calls of several          *)
(* goroutines, each in its own READ COMMITTED transaction, and             *)
(* VerifyRaceSpec does the same for userService.Verify.  ZoneSpec mails    *)
(* and redeems verification links on a server whose zone is UTC or west    *)
(* of UTC; every other specification runs a UTC server.  PanicSpec lets a  *)
(* step of a transactional flow panic instead of returning.                *)
(***************************************************************************)
EXTENDS Integers, Sequences, FiniteSets, TLC

VARIABLES users, refreshTokens, now, nextUser, nextToken, mail, build, rotate, last, pre,
          calls, jwt, codec, page, zone, mailedAt

vars == <<users, refreshTokens, now, nextUser, nextToken, mail, build, rotate, last, pre,
          calls, jwt, codec, page, zone, mailedAt>>

\* ---------------------------------------------------------------- bounds
MaxTime == 3
MaxUsers == 2
MaxTokens == 2
MaxProcs == 2

\* ------------------------------------------------------ program constants
\* Durations in clock ticks; only their order matters to the flows.
AccessExpiry == 1
VerifyExpiry == 1
RefreshExpiry == 1
AuthRefreshExpiry == 1

ENUM_ROLE_USER == "user"
ENUM_ROLE_ADMIN == "admin"

Emails == { <<"a">>, <<"a", "_", "b">> }
Passwords == { "p", "q" }
RegisterPasswords == { "p" }

\* ------------------------------------------------------------ error values
NoError == "nil"
DbError == "db error"
MESSAGE_FAILED_INVALID_REFRESH_TOKEN == "Invalid refresh token"
MESSAGE_FAILED_EXPIRED_REFRESH_TOKEN == "Refresh token has expired"
ErrInvalidRefreshToken == "invalid refresh token"
ErrExpiredRefreshToken == "refresh token has expired"
ErrCreateUser == "failed to create user"
ErrEmailAlreadyExists == "email already exist"
ErrUpdateUser == "failed to update user"
ErrUserNotFound == "user not found"
ErrEmailNotFound == "email not found"
ErrDeleteUser == "failed to delete user"
ErrTokenInvalid == "token invalid"
ErrTokenExpired == "token expired"
ErrAccountAlreadyVerified == "account already verified"
ErrAccountNotVerified == "ErrAccountNotVerified"
ErrPasswordNotMatch == "ErrPasswordNotMatch"
ErrDeleteRefreshTokens == "failed to delete refresh tokens: db error"
TemplateError == "template error"
MailError == "mail error"
SigningError == "signing error"

\* ----------------------------------------------------------------- values
EmptyString == 0
NilUUID == 0
ZeroTime == 0

\* --------------------------------------------------------------- utils/aes
\* A hex string is modelled by what AESDecrypt reads from it: whether it is
\* valid hex, the number of bytes it decodes to, the nonce in front, and the
\* plaintext that was sealed; ok says that the tag authenticates nonce and
\* body under KEY.
NonceSize == 12
TagSize == 16

NoMail == [hex |-> FALSE, size |-> 0, nonce |-> 0, ok |-> FALSE, sealed |-> << >>]

\* variant: the nonce is not written in front of the sealed bytes
SealNoNonce(nonce, plaintext) ==
    [hex |-> TRUE, size |-> Len(plaintext) + TagSize, nonce |-> 0, ok |-> FALSE,
     sealed |-> plaintext]

\* aesGCM.Seal(nonce, nonce, plaintext, nil), printed with %x
Seal(nonce, plaintext) ==
    [hex |-> TRUE, size |-> NonceSize + Len(plaintext) + TagSize, nonce |-> nonce,
     ok |-> TRUE, sealed |-> plaintext]

\* variant: the plaintext is returned without checking the tag
OpenUnchecked(enc) == [err |-> FALSE, panic |-> FALSE, text |-> enc.sealed]

\* aesGCM.Open(nil, nonce, ciphertext, nil) on enc[:nonceSize], enc[nonceSize:];
\* slicing a shorter enc panics
Open(enc) ==
    IF enc.size < NonceSize THEN [err |-> TRUE, panic |-> TRUE, text |-> << >>]
    ELSE IF enc.ok /\ enc.size >= NonceSize + TagSize
    THEN [err |-> FALSE, panic |-> FALSE, text |-> enc.sealed]
    ELSE [err |-> TRUE, panic |-> FALSE, text |-> << >>]

ErrDecodeEncrypted == "error in decoding encrypted string"
ErrCiphertextTooShort == "ciphertext too short"
ErrDecrypting == "error decrypting"

\* the nonce rand.Reader yields in the flows, none of which reads it
ReaderNonce == 1

AESEncryptNonce(stringToEncrypt, nonce) == Seal(nonce, stringToEncrypt)

AESEncrypt(stringToEncrypt) == AESEncryptNonce(stringToEncrypt, ReaderNonce)

\* err is the error of the call ("nil" for none); the deferred recover turns
\* a panic into the too-short error
AESDecrypt(encryptedString) ==
    LET opened == IF encryptedString.size < NonceSize
                  THEN [err |-> TRUE, panic |-> FALSE, text |-> << >>]
                  ELSE Open(encryptedString)
        message == IF ~encryptedString.hex THEN ErrDecodeEncrypted
                   ELSE IF encryptedString.size < NonceSize THEN ErrCiphertextTooShort
                   ELSE IF opened.panic THEN ErrCiphertextTooShort
                   ELSE IF opened.err THEN ErrDecrypting
                   ELSE NoError
    IN  [err |-> message # NoError,
         message |-> message,
         panic |-> FALSE,
         text |-> IF message = NoError THEN opened.text ELSE << >>]

NoAccess == [uid |-> NilUUID, role |-> "", exp |-> ZeroTime]
EmptyTokenResponse == [access |-> NoAccess, refresh |-> EmptyString]

\* ------------------------------------------------------- helpers/password
HashPassword(password) == "$2a$04$" \o password

CheckPassword(hashPassword, plainPassword) == hashPassword = HashPassword(plainPassword)

\* --------------------------------------------------------------- time.After
\* variant: a token is treated as live for one tick past its expiry
AfterLate(t, u) == t > u + 1

After(t, u) == t > u

\* ---------------------------------------------- time.Format and time.Parse
\* The zone of the server is the offset of its wall clock from UTC.  Calls
\* fall on whole clock ticks and an offset is shorter than a tick, so the
\* wall clock of a zone west of UTC reads, in whole ticks, one tick less
\* than UTC, and that of a zone east of UTC reads the same as UTC.
UTC == 0
West == -1

\* the reading of the server's wall clock at instant t: time.Now() is in
\* time.Local
Local(t) == t + zone

\* the layout "2006-01-02 15:04:05" writes the wall clock and no zone
FormatTime(t) == ToString(t)

\* variant: every string is taken for a timestamp
IsTimestampAny(s) == TRUE

IsTimestamp(s) == \E t \in 0..(MaxTime + VerifyExpiry) : ToString(t) = s

\* time.Parse reads a text without zone as UTC, and returns the zero instant
\* beside its error
ParseTime(s) ==
    IF \E t \in 0..(MaxTime + VerifyExpiry) : ToString(t) = s
    THEN CHOOSE t \in 0..(MaxTime + VerifyExpiry) : ToString(t) = s
    ELSE ZeroTime

\* variant: the operands of the subtraction are swapped
SubSwapped(t, u) == u - t

\* time.Time.Sub
Sub(t, u) == t - u

\* ------------------------------------------ strings.Contains, strings.Split
Contains(s, c) == \E i \in 1..Len(s) : s[i] = c

RECURSIVE Split(_, _)
Split(s, c) ==
    IF ~Contains(s, c) THEN << s >>
    ELSE LET i == CHOOSE k \in 1..Len(s) : s[k] = c /\ \A j \in 1..(k - 1) : s[j] # c
         IN  << SubSeq(s, 1, i - 1) >> \o Split(SubSeq(s, i + 1, Len(s)), c)

\* -------------------------------------------------- repository: users table
\* variant: the queries do not filter on deleted_at
LiveUsersAll(tbl) == tbl

\* gorm.DeletedAt: every query of the users table skips soft-deleted rows
LiveUsers(tbl) == { u \in tbl : ~u.deleted }

HasUserId(tbl, userId) == \E u \in LiveUsers(tbl) : u.id = userId

GetUserById(tbl, userId) == CHOOSE u \in LiveUsers(tbl) : u.id = userId

HasUserEmail(tbl, email) == \E u \in LiveUsers(tbl) : u.email = email

GetUserByEmail(tbl, email) == CHOOSE u \in LiveUsers(tbl) : u.email = email

\* variant: the lookup by email never finds a row
CheckEmailMiss(tbl, email) == FALSE

CheckEmail(tbl, email) == \E u \in LiveUsers(tbl) : u.email = email

\* variant: users.email carries no unique index
EmailIndexedNever(tbl, email) == FALSE

\* the unique index on users.email covers soft-deleted rows as well
EmailIndexed(tbl, email) == \E u \in tbl : u.email = email

\* variant: the INSERT stores nothing
RegisterRowNone(tbl, user) == tbl

\* INSERT of userRepository.Register, run without a transaction
RegisterRow(tbl, user) == tbl \cup { user }

\* variant: the hook stores the password as submitted
BeforeCreatePlain(user, id) ==
    [user EXCEPT !.id = IF user.id = NilUUID THEN id ELSE user.id,
                 !.role = IF user.role = "" THEN "user" ELSE user.role]

BeforeCreate(user, id) ==
    [user EXCEPT !.password = IF user.password # "" THEN HashPassword(user.password) ELSE "",
                 !.id = IF user.id = NilUUID THEN id ELSE user.id,
                 !.role = IF user.role = "" THEN "user" ELSE user.role]

\* variant: the hook hashes the password field whatever it holds
BeforeUpdateRehash(user) == [user EXCEPT !.password = HashPassword(user.password)]

\* the hook hashes a password only when the update carries one
BeforeUpdate(user) ==
    [user EXCEPT !.password = IF user.password # "" THEN HashPassword(user.password) ELSE ""]

UserDelete(tbl, userId) ==
    { IF u.id = userId /\ ~u.deleted THEN [u EXCEPT !.deleted = TRUE] ELSE u : u \in tbl }

UserSetVerified(tbl, userId) ==
    { IF u.id = userId /\ ~u.deleted THEN [u EXCEPT !.isVerified = TRUE] ELSE u : u \in tbl }

\* ----------------------------------------- repository: refresh_tokens table
HasToken(tbl, token) == \E r \in tbl : r.token = token

FindByToken(tbl, token) == CHOOSE r \in tbl : r.token = token

\* variant: the DELETE matches no row
DeleteByUserIDNone(tbl, userID) == tbl

\* variant: the DELETE has no WHERE clause
DeleteByUserIDAll(tbl, userID) == {}

DeleteByUserID(tbl, userID) == { r \in tbl : r.userId # userID }

\* variant: the DELETE by token value matches no row
DeleteByTokenNone(tbl, token) == tbl

DeleteByToken(tbl, token) == { r \in tbl : r.token # token }

\* INSERT: the unique index on refresh_tokens.token rejects a duplicate
CanCreate(tbl, row) == ~HasToken(tbl, row.token)

Create(tbl, row) == tbl \cup { row }

TokensOf(tbl, userID) == { r \in tbl : r.userId = userID }

\* ------------------------------------------------------------ transactions
\* variant: the statements of an abandoned transaction stay applied
RollbackKeeps(committed, working) == working

Rollback(committed, working) == committed

Commit(committed, working, fails) == IF fails THEN committed ELSE working

\* what a call did to its transaction: the number of tx.Commit and of
\* tx.Rollback calls it made, and whether it left by a panic
NoTx == [commits |-> 0, rollbacks |-> 0, repanic |-> FALSE]

\* variant: the deferred function rolls back and swallows the panic
SafeRollbackSwallow(recovered) == [NoTx EXCEPT !.rollbacks = IF recovered THEN 1 ELSE 0]

\* variant: the deferred function rolls back on every return
SafeRollbackAlways(recovered) == [NoTx EXCEPT !.rollbacks = 1, !.repanic = recovered]

\* defer SafeRollback(tx): recover() is non-nil only while the flow panics
SafeRollback(recovered) ==
    [NoTx EXCEPT !.rollbacks = IF recovered THEN 1 ELSE 0, !.repanic = recovered]

\* the value a panicking call leaves by
PanicValue == "panic"

\* a step of a flow panics instead of returning; tx.Commit is not among them
Panics(steps) == { { "panic", st } : st \in steps \ {"commit"} }

\* The ways out of a transactional flow: every error branch calls
\* tx.Rollback() and returns, the last statement calls tx.Commit(), and a
\* panic unwinds through the deferred SafeRollback alone.
TxEnd(path) ==
    LET deferred == SafeRollback(path = "panic")
    IN  [commits |-> IF path = "commit" THEN 1 ELSE 0,
         rollbacks |-> (IF path = "error" THEN 1 ELSE 0) + deferred.rollbacks,
         repanic |-> deferred.repanic]

TxPath(panics, committing) ==
    IF panics THEN "panic" ELSE IF committing THEN "commit" ELSE "error"

\* how the call ended: with the error it returned, or with the value it
\* panicked with
TxErr(panics, err) == IF panics THEN PanicValue ELSE err

\* ------------------------------------------------------------- jwt service
GenerateAccessToken(userId, role, signFails) ==
    IF signFails THEN NoAccess ELSE [uid |-> userId, role |-> role, exp |-> now + AccessExpiry]

GenerateRefreshToken(randFails) ==
    IF randFails THEN [token |-> EmptyString, expiresAt |-> ZeroTime]
    ELSE [token |-> nextToken, expiresAt |-> now + RefreshExpiry]

\* a random string that reaches the store is never drawn again
Drawn(randFails) == IF randFails THEN nextToken ELSE nextToken + 1

\* ------------------------------------------------------- jwt: token strings
\* A token string is modelled by what a parser reads from it: the number of
\* dot-separated segments (0 for the empty string), the alg header, the key
\* its signature was made with, and the claims.  A claim is absent, a JSON
\* string or a JSON number.
SigningMethodHS256 == "HS256"
SigningMethodHS512 == "HS512"
SigningMethodNone == "none"
SigningMethodHMAC == { SigningMethodHS256, SigningMethodHS512 }

secretKey == "Template"
ForeignKey == "foreign"

NoClaims ==
    [user_id |-> NilUUID, uidKind |-> "absent", role |-> "", roleKind |-> "absent",
     exp |-> ZeroTime]

EmptyToken == [segments |-> 0, alg |-> "", key |-> "", claims |-> NoClaims]

jwtCustomClaim(access) ==
    [user_id |-> access.uid, uidKind |-> "string", role |-> access.role,
     roleKind |-> "string", exp |-> access.exp]

SignedString(method, key, claims) ==
    [segments |-> 3, alg |-> method, key |-> key, claims |-> claims]

\* the string GenerateAccessToken returns: "" when signing failed
AccessTokenString(access) ==
    IF access = NoAccess THEN EmptyToken
    ELSE SignedString(SigningMethodHS256, secretKey, jwtCustomClaim(access))

\* ------------------------------------------------------ jwt: golang-jwt v4
JwtMalformed == "token contains an invalid number of segments"
JwtClaimsMalformed == "json: cannot unmarshal number into Go struct field of type string"
JwtUnexpectedMethod == "unexpected signing method"
JwtExpired == "token is expired"
JwtSignatureInvalid == "signature is invalid"
JwtEmpty == "token is empty"
JwtInvalid == "invalid token"

\* variant: a token is refused one tick before its expiry
VerifyExpiresAtEarly(exp) == now + 1 < exp

\* RegisteredClaims.VerifyExpiresAt / MapClaims.VerifyExpiresAt: now.Before(exp)
VerifyExpiresAt(exp) == now < exp

\* SigningMethod.Verify with the key the key function returned; the none
\* method verifies only with the UnsafeAllowNoneSignatureType key
SignatureVerifies(token, key) == token.alg # SigningMethodNone /\ token.key = key

NilToken == [err |-> NoError, parsed |-> FALSE, valid |-> FALSE, claims |-> NoClaims]

\* Parser.ParseWithClaims: typed is TRUE when the claims are decoded into
\* jwtCustomClaim, FALSE for jwt.MapClaims; methods are the algorithms the key
\* function accepts.  A failure after the segments were decoded returns the
\* token next to the error.
ParseWithClaims(token, typed, methods) ==
    IF token.segments # 3 THEN [NilToken EXCEPT !.err = JwtMalformed]
    ELSE IF typed /\ "number" \in {token.claims.uidKind, token.claims.roleKind}
    THEN [NilToken EXCEPT !.err = JwtClaimsMalformed, !.parsed = TRUE]
    ELSE IF token.alg \notin methods
    THEN [NilToken EXCEPT !.err = JwtUnexpectedMethod, !.parsed = TRUE,
                          !.claims = token.claims]
    ELSE IF ~VerifyExpiresAt(token.claims.exp)
    THEN [NilToken EXCEPT !.err = JwtExpired, !.parsed = TRUE, !.claims = token.claims]
    ELSE IF ~SignatureVerifies(token, secretKey)
    THEN [NilToken EXCEPT !.err = JwtSignatureInvalid, !.parsed = TRUE,
                          !.claims = token.claims]
    ELSE [NilToken EXCEPT !.parsed = TRUE, !.valid = TRUE, !.claims = token.claims]

\* jwtService.ValidateToken of the service that userService uses
ValidateTokenHS256(token) ==
    IF token = EmptyToken THEN [NilToken EXCEPT !.err = JwtEmpty]
    ELSE IF token.segments # 3 THEN [NilToken EXCEPT !.err = JwtMalformed]
    ELSE LET parsedToken == ParseWithClaims(token, TRUE, { SigningMethodHS256 })
         IN  IF parsedToken.err # NoError THEN [NilToken EXCEPT !.err = JwtInvalid]
             ELSE IF ~parsedToken.valid THEN [NilToken EXCEPT !.err = JwtInvalid]
             ELSE parsedToken

\* jwtService.parseToken: the key function that accepts every HMAC method
parseToken == SigningMethodHMAC

\* jwtService.ValidateToken of the service that authService uses
ValidateTokenHMAC(token) == ParseWithClaims(token, FALSE, parseToken)

\* variant: a token of a user who is no longer stored is refused
ValidateTokenRevocable(token) ==
    LET r == IF build = "user" THEN ValidateTokenHS256(token) ELSE ValidateTokenHMAC(token)
    IN  IF r.err = NoError /\ ~HasUserId(users, token.claims.user_id)
        THEN [NilToken EXCEPT !.err = JwtInvalid]
        ELSE r

ValidateToken(token) ==
    IF build = "user" THEN ValidateTokenHS256(token) ELSE ValidateTokenHMAC(token)

\* what an extraction returns: text is the fmt.Sprintf("%v") form when the
\* claim was not a string ("<nil>" for an absent claim)
NoExtract == [err |-> NoError, panic |-> FALSE, userId |-> NilUUID, role |-> "", text |-> ""]

\* GetUserIDByToken: claims.UserID of the typed claims, fmt.Sprintf("%v",
\* claims["user_id"]) of the map claims
GetUserIDByToken(token) ==
    LET t == ValidateToken(token)
    IN  IF t.err # NoError THEN [NoExtract EXCEPT !.err = t.err]
        ELSE IF build = "user"
        THEN [NoExtract EXCEPT !.userId = IF t.claims.uidKind = "string"
                                          THEN t.claims.user_id ELSE NilUUID]
        ELSE IF t.claims.uidKind = "string" THEN [NoExtract EXCEPT !.userId = t.claims.user_id]
        ELSE IF t.claims.uidKind = "number"
        THEN [NoExtract EXCEPT !.userId = t.claims.user_id, !.text = "number"]
        ELSE [NoExtract EXCEPT !.text = "<nil>"]

\* GetRoleByToken: claims["role"].(string), an unchecked type assertion
GetRoleByToken(token) ==
    LET t == ValidateToken(token)
    IN  IF t.err # NoError THEN [NoExtract EXCEPT !.err = t.err]
        ELSE IF t.claims.roleKind # "string" THEN [NoExtract EXCEPT !.panic = TRUE]
        ELSE [NoExtract EXCEPT !.role = t.claims.role]

\* the client's token, issued at instant at, and the answer to the last
\* jwtService call on it, made at instant asked
NoJwt ==
    [op |-> "none", token |-> EmptyToken, signed |-> FALSE, userId |-> NilUUID, role |-> "",
     at |-> ZeroTime, asked |-> ZeroTime, parsed |-> NilToken, got |-> NoExtract]

\* the arguments and the answer of the last TotalPage call
NoPage == [op |-> "none", count |-> 0, perPage |-> 0, totalPage |-> 0]

\* the string under the codec and the answer to the last call on it
NoCodec ==
    [op |-> "none", plaintext |-> << >>, intact |-> FALSE, encrypted |-> NoMail,
     err |-> NoError,
     decrypted |-> [err |-> FALSE, message |-> NoError, panic |-> FALSE, text |-> << >>]]

\* -------------------------------------------------------------- call record
\* the tables as the last call found them
Snapshot == [users |-> users, refreshTokens |-> refreshTokens]

Result(op, email, password, token, userId, f, err, resp) ==
    [op |-> op, email |-> email, password |-> password, token |-> token, userId |-> userId,
     fault |-> f, err |-> err, access |-> resp.access, refresh |-> resp.refresh,
     isVerified |-> FALSE, uploaded |-> FALSE, link |-> NoMail, tx |-> NoTx]

NoCall == Result("none", << >>, "", EmptyString, NilUUID, {}, NoError, EmptyTokenResponse)

\* the calls in flight, one slot per request-serving goroutine
Procs == 1..MaxProcs

NoRow == [userId |-> NilUUID, token |-> EmptyString, expiresAt |-> ZeroTime]

\* a transactional call also holds the token presented, the row it inserts,
\* the snapshot of its DELETE and the rows it has deleted and written
Idle ==
    [op |-> "none", pc |-> "idle", email |-> << >>, userId |-> NilUUID, role |-> "",
     err |-> NoError, token |-> EmptyString, row |-> NoRow, snap |-> {}, deleted |-> {},
     written |-> {}]

Init ==
    /\ calls = [p \in Procs |-> Idle]
    /\ users = {}
    /\ refreshTokens = {}
    /\ now = 1
    /\ nextUser = 1
    /\ nextToken = 1
    /\ mail = NoMail
    /\ \/ build = "user" /\ rotate = TRUE
       \/ build = "auth" /\ rotate \in BOOLEAN
    /\ pre = [users |-> {}, refreshTokens |-> {}]
    /\ last = NoCall
    /\ jwt = NoJwt
    /\ codec = NoCodec
    /\ page = NoPage
    /\ zone = UTC
    /\ mailedAt = ZeroTime

Tick ==
    /\ now < MaxTime
    /\ now' = now + 1
    /\ pre' = Snapshot
    /\ last' = NoCall
    /\ UNCHANGED <<users, refreshTokens, nextUser, nextToken, mail, build, rotate, calls,
                   jwt, codec, page, zone, mailedAt>>

\* ------------------------------------------------- makeVerificationEmail
makeVerificationEmail(receiverEmail) ==
    AESEncrypt(receiverEmail \o <<"_">> \o << FormatTime(Local(now + VerifyExpiry)) >>)

\* ------------------------------------------------------ userService.Register
\* "profile/<uuid>.<ext>" for a request with an image, "" without
Filename(image) == IF image THEN <<"profile", "/", "uuid", ".", "ext">> ELSE << >>

\* validator tag `url`: the string carries a scheme
IsURL(s) == Contains(s, ":")

\* validate.Struct of BeforeCreate on ImageUrl, tag `omitempty,url`
ValidImageUrl(imageUrl) == imageUrl = << >> \/ IsURL(imageUrl)

UploadError == "upload error"

RegisterSteps == {"check", "upload", "insert", "template", "mail"}

Register(email, password, image, f) ==
    LET user == BeforeCreate([id |-> NilUUID, email |-> email, password |-> password,
                              role |-> ENUM_ROLE_USER, isVerified |-> FALSE, deleted |-> FALSE],
                             nextUser)
        exists == CheckEmail(users, email)
        uploads == ~("check" \in f) /\ ~exists /\ image
        uploaded == uploads /\ ~("upload" \in f)
        inserts == ~("check" \in f) /\ ~exists /\ (image => uploaded)
        inserted == /\ inserts
                    /\ ~("insert" \in f)
                    /\ ValidImageUrl(Filename(image))
                    /\ ~EmailIndexed(users, email)
        err == IF "check" \in f THEN DbError
               ELSE IF exists THEN ErrEmailAlreadyExists
               ELSE IF uploads /\ ~uploaded THEN UploadError
               ELSE IF ~inserted THEN ErrCreateUser
               ELSE IF "template" \in f THEN TemplateError
               ELSE IF "mail" \in f THEN MailError
               ELSE NoError
        stored == err \in {TemplateError, MailError, NoError}
        reached == {"check"}
                   \cup (IF uploads THEN {"upload"} ELSE {})
                   \cup (IF inserts THEN {"insert"} ELSE {})
                   \cup (IF inserts /\ ValidImageUrl(Filename(image))
                            /\ ~EmailIndexed(users, email)
                         THEN {"template", "mail"} ELSE {})
    IN  /\ f \subseteq reached
        /\ nextUser <= MaxUsers
        /\ users' = IF stored THEN RegisterRow(users, user) ELSE users
        /\ nextUser' = IF stored THEN nextUser + 1 ELSE nextUser
        /\ mail' = IF err = NoError THEN makeVerificationEmail(user.email) ELSE NoMail
        /\ mailedAt' = IF err = NoError THEN now ELSE ZeroTime
        /\ pre' = Snapshot
        /\ last' = [Result("Register", email, password, EmptyString,
                           IF err = NoError THEN user.id ELSE NilUUID, f, err,
                           EmptyTokenResponse)
                    EXCEPT !.uploaded = uploaded]
        /\ UNCHANGED <<refreshTokens, now, nextToken, build, rotate, calls, jwt, codec,
                       page, zone>>

\* ----------------------------------------- userService.SendVerificationEmail
SendSteps == {"find", "template", "mail"}

SendVerificationEmail(email, f) ==
    LET err == IF "find" \in f \/ ~HasUserEmail(users, email) THEN ErrEmailNotFound
               ELSE IF "template" \in f THEN TemplateError
               ELSE IF "mail" \in f THEN MailError
               ELSE NoError
        reached == {"find"}
                   \cup (IF HasUserEmail(users, email) THEN {"template", "mail"} ELSE {})
    IN  /\ f \subseteq reached
        /\ mail' = IF err = NoError
                   THEN makeVerificationEmail(GetUserByEmail(users, email).email)
                   ELSE NoMail
        /\ mailedAt' = IF err = NoError THEN now ELSE ZeroTime
        /\ pre' = Snapshot
        /\ last' = Result("SendVerificationEmail", email, "", EmptyString, NilUUID, f, err,
                          EmptyTokenResponse)
        /\ UNCHANGED <<users, refreshTokens, now, nextUser, nextToken, build, rotate,
                       calls, jwt, codec, page, zone>>

\* --------------------------------------------------- userService.VerifyEmail
VerifyEmailSteps == {"find", "update"}

VerifyEmail(token, f) ==
    LET dec == AESDecrypt(token)
        parts == Split(dec.text, "_")
        email == parts[1]
        expired == parts[2]
        parsed == Len(expired) = 1 /\ IsTimestamp(expired[1])
        err == IF dec.err THEN ErrTokenInvalid
               ELSE IF ~Contains(dec.text, "_") THEN ErrTokenInvalid
               ELSE IF ~parsed THEN ErrTokenInvalid
               ELSE IF Sub(ParseTime(expired[1]), now) < 0 THEN ErrTokenExpired
               ELSE IF "find" \in f \/ ~HasUserEmail(users, email) THEN ErrUserNotFound
               ELSE IF GetUserByEmail(users, email).isVerified THEN ErrAccountAlreadyVerified
               ELSE IF "update" \in f THEN ErrUpdateUser
               ELSE NoError
        looksUp == ~dec.err /\ Contains(dec.text, "_") /\ parsed
                   /\ ~(Sub(ParseTime(expired[1]), now) < 0)
        reached == (IF looksUp THEN {"find"} ELSE {})
                   \cup (IF looksUp /\ HasUserEmail(users, email)
                            /\ ~GetUserByEmail(users, email).isVerified
                         THEN {"update"} ELSE {})
    IN  /\ f \subseteq reached
        /\ users' = IF err = NoError
                    THEN UserSetVerified(users, GetUserByEmail(users, email).id)
                    ELSE users
        /\ pre' = Snapshot
        /\ last' = [Result("VerifyEmail",
                           IF err \in {NoError, ErrTokenExpired} THEN email ELSE << >>,
                           "", EmptyString, NilUUID, f, err, EmptyTokenResponse)
                    EXCEPT !.isVerified = (err = NoError), !.link = token]
        /\ UNCHANGED <<refreshTokens, now, nextUser, nextToken, mail, build, rotate,
                       calls, jwt, codec, page, zone, mailedAt>>

\* -------------------------------------------------------- userService.Verify
\* errors.New("invalid email or password") at the two credential checks
\* variant: the lookup failure is reported under its own message
VerifyLookupLeak == "email not found"

VerifyLookupError == "invalid email or password"

VerifyPasswordError == "invalid email or password"

VerifySteps == {"find", "sign", "rand", "delete", "create", "commit"}

Verify(email, password, f) ==
    LET panics == "panic" \in f
        found == ~("find" \in f) /\ HasUserEmail(users, email)
        user == GetUserByEmail(users, email)
        credentials == found /\ CheckPassword(user.password, password)
        accessToken == GenerateAccessToken(user.id, user.role, "sign" \in f)
        gen == GenerateRefreshToken("rand" \in f)
        refreshToken == [userId |-> user.id, token |-> gen.token, expiresAt |-> gen.expiresAt]
        tx1 == DeleteByUserID(refreshTokens, user.id)
        tx2 == Create(tx1, refreshToken)
        createFails == "create" \in f \/ ~CanCreate(tx1, refreshToken)
        committing == credentials /\ ~("delete" \in f) /\ ~createFails /\ ~panics
        working == IF ~credentials \/ "delete" \in f THEN refreshTokens
                   ELSE IF createFails THEN tx1 ELSE tx2
        ret == IF ~found THEN VerifyLookupError
               ELSE IF ~credentials THEN VerifyPasswordError
               ELSE IF ~committing \/ "commit" \in f THEN DbError
               ELSE NoError
        err == TxErr(panics, ret)
        reached == {"find"}
                   \cup (IF credentials THEN {"sign", "rand", "delete", "create"} ELSE {})
                   \cup (IF committing THEN {"commit"} ELSE {})
    IN  /\ build = "user"
        /\ (f \ {"panic"}) \subseteq reached
        /\ nextToken <= MaxTokens
        /\ refreshTokens' = IF committing THEN Commit(refreshTokens, working, "commit" \in f)
                            ELSE Rollback(refreshTokens, working)
        /\ nextToken' = IF err = NoError THEN Drawn("rand" \in f) ELSE nextToken
        /\ pre' = Snapshot
        /\ last' = [Result("Verify", email, password, EmptyString, NilUUID, f, err,
                           IF err = NoError
                           THEN [access |-> accessToken, refresh |-> gen.token]
                           ELSE EmptyTokenResponse)
                    EXCEPT !.tx = TxEnd(TxPath(panics, committing))]
        /\ mail' = NoMail
        /\ mailedAt' = ZeroTime
        /\ UNCHANGED <<users, now, nextUser, build, rotate, calls, jwt, codec, page, zone>>

\* -------------------------------------------------- userService.RefreshToken
RefreshTokenSteps == {"find", "getUser", "sign", "rand", "delete", "create", "commit"}

RefreshToken(token, f) ==
    LET panics == "panic" \in f
        found == ~("find" \in f) /\ HasToken(refreshTokens, token)
        dbToken == FindByToken(refreshTokens, token)
        expired == After(now, dbToken.expiresAt)
        hasUser == ~("getUser" \in f) /\ HasUserId(users, dbToken.userId)
        user == GetUserById(users, dbToken.userId)
        valid == found /\ ~expired /\ hasUser
        accessToken == GenerateAccessToken(user.id, user.role, "sign" \in f)
        gen == GenerateRefreshToken("rand" \in f)
        refreshToken == [userId |-> user.id, token |-> gen.token, expiresAt |-> gen.expiresAt]
        tx1 == DeleteByUserID(refreshTokens, user.id)
        tx2 == Create(tx1, refreshToken)
        createFails == "create" \in f \/ ~CanCreate(tx1, refreshToken)
        committing == valid /\ ~("delete" \in f) /\ ~createFails /\ ~panics
        working == IF ~valid \/ "delete" \in f THEN refreshTokens
                   ELSE IF createFails THEN tx1 ELSE tx2
        ret == IF ~found THEN MESSAGE_FAILED_INVALID_REFRESH_TOKEN
               ELSE IF expired THEN MESSAGE_FAILED_EXPIRED_REFRESH_TOKEN
               ELSE IF ~hasUser THEN ErrUserNotFound
               ELSE IF ~committing \/ "commit" \in f THEN DbError
               ELSE NoError
        err == TxErr(panics, ret)
        reached == {"find"}
                   \cup (IF found /\ ~expired THEN {"getUser"} ELSE {})
                   \cup (IF valid THEN {"sign", "rand", "delete", "create"} ELSE {})
                   \cup (IF committing THEN {"commit"} ELSE {})
    IN  /\ build = "user"
        /\ (f \ {"panic"}) \subseteq reached
        /\ nextToken <= MaxTokens
        /\ refreshTokens' = IF committing THEN Commit(refreshTokens, working, "commit" \in f)
                            ELSE Rollback(refreshTokens, working)
        /\ nextToken' = IF err = NoError THEN Drawn("rand" \in f) ELSE nextToken
        /\ pre' = Snapshot
        /\ last' = [Result("RefreshToken", << >>, "", token, NilUUID, f, err,
                           IF err = NoError
                           THEN [access |-> accessToken, refresh |-> gen.token]
                           ELSE EmptyTokenResponse)
                    EXCEPT !.tx = TxEnd(TxPath(panics, committing))]
        /\ mail' = NoMail
        /\ mailedAt' = ZeroTime
        /\ UNCHANGED <<users, now, nextUser, build, rotate, calls, jwt, codec, page, zone>>

\* -------------------------------------------- userService.RevokeRefreshToken
RevokeSteps == {"getUser", "delete", "commit"}

RevokeRefreshToken(userID, f) ==
    LET panics == "panic" \in f
        hasUser == ~("getUser" \in f) /\ HasUserId(users, userID)
        committing == hasUser /\ ~("delete" \in f) /\ ~panics
        working == IF committing THEN DeleteByUserID(refreshTokens, userID) ELSE refreshTokens
        ret == IF ~hasUser THEN ErrUserNotFound
               ELSE IF ~committing \/ "commit" \in f THEN DbError
               ELSE NoError
        err == TxErr(panics, ret)
        reached == {"getUser"}
                   \cup (IF hasUser THEN {"delete"} ELSE {})
                   \cup (IF committing THEN {"commit"} ELSE {})
    IN  /\ build = "user"
        /\ (f \ {"panic"}) \subseteq reached
        /\ refreshTokens' = IF committing THEN Commit(refreshTokens, working, "commit" \in f)
                            ELSE Rollback(refreshTokens, working)
        /\ pre' = Snapshot
        /\ last' = [Result("RevokeRefreshToken", << >>, "", EmptyString, userID, f, err,
                           EmptyTokenResponse)
                    EXCEPT !.tx = TxEnd(TxPath(panics, committing))]
        /\ mail' = NoMail
        /\ mailedAt' = ZeroTime
        /\ UNCHANGED <<users, now, nextUser, nextToken, build, rotate, calls, jwt, codec,
                       page, zone>>

\* -------------------------------------------------------- userService.Delete
DeleteSteps == {"getUser", "delete", "deleteUser", "commit"}

Delete(userId, f) ==
    LET panics == "panic" \in f
        hasUser == ~("getUser" \in f) /\ HasUserId(users, userId)
        user == GetUserById(users, userId)
        tokensDeleted == hasUser /\ ~("delete" \in f)
        committing == tokensDeleted /\ ~("deleteUser" \in f) /\ ~panics
        workingTokens == IF tokensDeleted THEN DeleteByUserID(refreshTokens, user.id)
                         ELSE refreshTokens
        workingUsers == IF committing THEN UserDelete(users, user.id) ELSE users
        ret == IF ~hasUser THEN ErrUserNotFound
               ELSE IF "delete" \in f THEN ErrDeleteRefreshTokens
               ELSE IF "deleteUser" \in f THEN ErrDeleteUser
               ELSE IF "commit" \in f THEN DbError
               ELSE NoError
        err == TxErr(panics, ret)
        reached == {"getUser"}
                   \cup (IF hasUser THEN {"delete"} ELSE {})
                   \cup (IF tokensDeleted THEN {"deleteUser"} ELSE {})
                   \cup (IF committing THEN {"commit"} ELSE {})
    IN  /\ build = "user"
        /\ (f \ {"panic"}) \subseteq reached
        /\ refreshTokens' = IF committing
                            THEN Commit(refreshTokens, workingTokens, "commit" \in f)
                            ELSE Rollback(refreshTokens, workingTokens)
        /\ users' = IF committing THEN Commit(users, workingUsers, "commit" \in f)
                    ELSE Rollback(users, workingUsers)
        /\ pre' = Snapshot
        /\ last' = [Result("Delete", << >>, "", EmptyString, userId, f, err,
                           EmptyTokenResponse)
                    EXCEPT !.tx = TxEnd(TxPath(panics, committing))]
        /\ mail' = NoMail
        /\ mailedAt' = ZeroTime
        /\ UNCHANGED <<now, nextUser, nextToken, build, rotate, calls, jwt, codec, page,
                       zone>>

\* --------------------------------------------------------- authService.Login
LoginSteps == {"check", "sign", "delete", "create"}

Login(email, password, f) ==
    LET found == ~("check" \in f) /\ HasUserEmail(users, email)
        user == GetUserByEmail(users, email)
        credErr == IF ~found THEN ErrEmailNotFound
                   ELSE IF ~user.isVerified THEN ErrAccountNotVerified
                   ELSE IF ~CheckPassword(user.password, password) THEN ErrPasswordNotMatch
                   ELSE NoError
        signed == credErr = NoError /\ ~("sign" \in f)
        accessToken == GenerateAccessToken(user.id, user.role, FALSE)
        refreshTokenEntity == [userId |-> user.id, token |-> nextToken,
                               expiresAt |-> now + AuthRefreshExpiry]
        afterDelete == IF "delete" \in f THEN refreshTokens
                       ELSE DeleteByUserID(refreshTokens, user.id)
        createFails == "create" \in f \/ ~CanCreate(afterDelete, refreshTokenEntity)
        err == IF credErr # NoError THEN credErr
               ELSE IF ~signed THEN SigningError
               ELSE IF createFails THEN DbError
               ELSE NoError
        reached == {"check"}
                   \cup (IF credErr = NoError THEN {"sign"} ELSE {})
                   \cup (IF signed THEN {"delete", "create"} ELSE {})
    IN  /\ build = "auth"
        /\ f \subseteq reached
        /\ nextToken <= MaxTokens
        /\ refreshTokens' = IF ~signed THEN refreshTokens
                            ELSE IF createFails THEN afterDelete
                            ELSE Create(afterDelete, refreshTokenEntity)
        /\ nextToken' = IF err = NoError THEN nextToken + 1 ELSE nextToken
        /\ pre' = Snapshot
        /\ last' = Result("Login", email, password, EmptyString, NilUUID, f, err,
                          IF err = NoError
                          THEN [access |-> accessToken, refresh |-> nextToken]
                          ELSE EmptyTokenResponse)
        /\ mail' = NoMail
        /\ mailedAt' = ZeroTime
        /\ UNCHANGED <<users, now, nextUser, build, rotate, calls, jwt, codec, page, zone>>

\* -------------------------------------------------- authService.RefreshToken
\* variant: the response always carries a newly drawn refresh token
IssuedRefreshTokenFresh(rotating, presented, fresh) == fresh

\* the refresh token of the response: the new one when rotating, else the
\* request's own
IssuedRefreshToken(rotating, presented, fresh) == IF rotating THEN fresh ELSE presented

AuthRefreshSteps == {"find", "getUser", "sign", "delete", "create"}

AuthRefreshToken(token, f) ==
    LET found == ~("find" \in f) /\ HasToken(refreshTokens, token)
        storedToken == FindByToken(refreshTokens, token)
        expired == After(now, storedToken.expiresAt)
        hasUser == ~("getUser" \in f) /\ HasUserId(users, storedToken.userId)
        user == GetUserById(users, storedToken.userId)
        signed == found /\ ~expired /\ hasUser /\ ~("sign" \in f)
        accessToken == GenerateAccessToken(user.id, user.role, FALSE)
        afterDelete == IF "delete" \in f THEN refreshTokens
                       ELSE DeleteByToken(refreshTokens, token)
        newRefreshTokenEntity == [userId |-> user.id, token |-> nextToken,
                                  expiresAt |-> now + AuthRefreshExpiry]
        createFails == "create" \in f \/ ~CanCreate(afterDelete, newRefreshTokenEntity)
        err == IF ~found THEN ErrInvalidRefreshToken
               ELSE IF expired THEN ErrExpiredRefreshToken
               ELSE IF ~hasUser THEN ErrUserNotFound
               ELSE IF ~signed THEN SigningError
               ELSE IF rotate /\ createFails THEN DbError
               ELSE NoError
        reached == {"find"}
                   \cup (IF found /\ expired THEN {"delete"} ELSE {})
                   \cup (IF found /\ ~expired THEN {"getUser"} ELSE {})
                   \cup (IF found /\ ~expired /\ hasUser THEN {"sign"} ELSE {})
                   \cup (IF signed /\ rotate THEN {"delete", "create"} ELSE {})
    IN  /\ build = "auth"
        /\ f \subseteq reached
        /\ nextToken <= MaxTokens
        /\ refreshTokens' = IF found /\ expired THEN afterDelete
                            ELSE IF ~(signed /\ rotate) THEN refreshTokens
                            ELSE IF createFails THEN afterDelete
                            ELSE Create(afterDelete, newRefreshTokenEntity)
        /\ nextToken' = IF err = NoError /\ rotate THEN nextToken + 1 ELSE nextToken
        /\ pre' = Snapshot
        /\ last' = Result("AuthRefreshToken", << >>, "", token, NilUUID, f, err,
                          IF err # NoError THEN EmptyTokenResponse
                          ELSE [access |-> accessToken,
                                refresh |-> IssuedRefreshToken(rotate, token, nextToken)])
        /\ mail' = NoMail
        /\ mailedAt' = ZeroTime
        /\ UNCHANGED <<users, now, nextUser, build, rotate, calls, jwt, codec, page, zone>>

\* -------------------------------------------------------- authService.Logout
LogoutSteps == {"delete"}

Logout(token, f) ==
    LET err == IF "delete" \in f THEN DbError ELSE NoError
    IN  /\ build = "auth"
        /\ f \subseteq LogoutSteps
        /\ refreshTokens' = IF "delete" \in f THEN refreshTokens
                            ELSE DeleteByToken(refreshTokens, token)
        /\ pre' = Snapshot
        /\ last' = Result("Logout", << >>, "", token, NilUUID, f, err, EmptyTokenResponse)
        /\ mail' = NoMail
        /\ mailedAt' = ZeroTime
        /\ UNCHANGED <<users, now, nextUser, nextToken, build, rotate, calls, jwt, codec,
                       page, zone>>

\* ---------------------------------------- userRepository.Update (gorm Updates)
\* UPDATE users SET <non-zero fields> WHERE id = ? AND deleted_at IS NULL:
\* rejected by the unique index when another row has the new email
UpdateFails(tbl, data) ==
    /\ HasUserId(tbl, data.id)
    /\ data.email # << >>
    /\ EmailIndexed({ u \in tbl : u.id # data.id }, data.email)

\* variant: the UPDATE writes the zero-valued fields too (gorm Save)
UpdateUserSave(tbl, data) ==
    { IF u.id = data.id /\ ~u.deleted
      THEN [u EXCEPT !.email = data.email, !.isVerified = FALSE] ELSE u : u \in tbl }

UpdateUser(tbl, data) ==
    { IF u.id = data.id /\ ~u.deleted
      THEN [u EXCEPT !.email = IF data.email # << >> THEN data.email ELSE u.email,
                     !.role = IF data.role # "" THEN data.role ELSE u.role,
                     !.password = IF data.password # "" THEN data.password ELSE u.password]
      ELSE u : u \in tbl }


\* -------------------------------------------------------- userService.Update
UpdateSteps == {"getUser", "update"}

Update(userId, email, f) ==
    LET hasUser == ~("getUser" \in f) /\ HasUserId(users, userId)
        data == BeforeUpdate([id |-> userId, email |-> email, password |-> "",
                              role |-> IF hasUser THEN GetUserById(users, userId).role
                                       ELSE ""])
        fails == "update" \in f \/ UpdateFails(users, data)
        err == IF ~hasUser THEN ErrUserNotFound
               ELSE IF fails THEN ErrUpdateUser
               ELSE NoError
        reached == {"getUser"} \cup (IF hasUser THEN {"update"} ELSE {})
    IN  /\ build = "user"
        /\ f \subseteq reached
        /\ users' = IF err = NoError THEN UpdateUser(users, data) ELSE users
        /\ pre' = Snapshot
        /\ last' = [Result("Update", email, "", EmptyString, userId, f, err,
                           EmptyTokenResponse)
                    EXCEPT !.isVerified = (err = NoError /\ GetUserById(users, userId).isVerified)]
        /\ mail' = NoMail
        /\ mailedAt' = ZeroTime
        /\ UNCHANGED <<refreshTokens, now, nextUser, nextToken, build, rotate, calls,
                       jwt, codec, page, zone>>

\* ------------------------------------------------------------ specification
\* a call runs with no failing step or with exactly one, which it reaches
Faults(steps) == { {} } \cup { { st } : st \in steps }

Next ==
    \/ Tick
    \/ \E email \in Emails, password \in RegisterPasswords, f \in Faults(RegisterSteps) :
          Register(email, password, FALSE, f)
    \* userService.Verify does not read isVerified: the verification calls are
    \* made where the login reads it, and in AccountSpec
    \/ /\ build = "auth"
       /\ \E email \in Emails, f \in Faults(SendSteps) : SendVerificationEmail(email, f)
    \/ /\ build = "auth"
       /\ \E token \in {mail, NoMail}, f \in Faults(VerifyEmailSteps) : VerifyEmail(token, f)
    \/ \E email \in Emails, password \in Passwords, f \in Faults(VerifySteps) :
          Verify(email, password, f)
    \/ \E token \in 0..MaxTokens, f \in Faults(RefreshTokenSteps) : RefreshToken(token, f)
    \/ \E userID \in 1..MaxUsers, f \in Faults(RevokeSteps) : RevokeRefreshToken(userID, f)
    \/ \E userId \in 1..MaxUsers, f \in Faults(DeleteSteps) : Delete(userId, f)
    \/ \E email \in Emails, password \in Passwords, f \in Faults(LoginSteps) :
          Login(email, password, f)
    \/ \E token \in 0..MaxTokens, f \in Faults(AuthRefreshSteps) : AuthRefreshToken(token, f)
    \/ \E token \in 0..MaxTokens, f \in Faults(LogoutSteps) : Logout(token, f)

Spec == Init /\ [][Next]_vars

\* ----------------------------------------- the account flows of userService
\* ciphertexts under the service's key that makeVerificationEmail did not
\* build: a text without separator, one whose second part is no timestamp, and
\* one whose timestamp is the zero instant
CraftedTokens ==
    { AESEncrypt(<<"a">>),
      AESEncrypt(<<"a", "_", "x">>),
      AESEncrypt(<<"a", "_", FormatTime(ZeroTime)>>) }

AccountInit == Init /\ build = "user"

\* a login starts while no refresh token is stored: one session at a time
AccountNext ==
    \/ Tick
    \/ \E email \in Emails, password \in RegisterPasswords, image \in BOOLEAN,
          f \in Faults(RegisterSteps) :
          Register(email, password, image, f)
    \/ \E email \in Emails, f \in Faults(SendSteps) : SendVerificationEmail(email, f)
    \/ \E token \in {mail, NoMail} \cup CraftedTokens, f \in Faults(VerifyEmailSteps) :
          VerifyEmail(token, f)
    \/ \E userId \in 1..MaxUsers, email \in Emails \cup { << >> }, f \in Faults(UpdateSteps) :
          Update(userId, email, f)
    \/ /\ refreshTokens = {}
       /\ \E email \in Emails, password \in Passwords : Verify(email, password, {})
    \/ \E token \in 0..MaxTokens : RefreshToken(token, {})

AccountSpec == AccountInit /\ [][AccountNext]_vars

\* ------------------------------- Register and Update, statement by statement
Done(call, userId, err) == [call EXCEPT !.pc = "done", !.userId = userId, !.err = err]

\* Register up to the CheckEmail answer
RegisterCheckEmail(p, email) ==
    /\ calls[p].pc = "idle"
    /\ nextUser + Cardinality({ q \in Procs : calls[q].pc = "insert" }) <= MaxUsers
    /\ calls' = [calls EXCEPT ![p] =
                    IF CheckEmail(users, email)
                    THEN Done([Idle EXCEPT !.op = "Register", !.email = email],
                              NilUUID, ErrEmailAlreadyExists)
                    ELSE [Idle EXCEPT !.op = "Register", !.pc = "insert", !.email = email]]
    /\ UNCHANGED <<users, refreshTokens, now, nextUser, nextToken, mail, build, rotate,
                   last, pre, jwt, codec, page, zone, mailedAt>>

\* Register from the INSERT to its return
RegisterInsert(p) ==
    LET email == calls[p].email
        user == BeforeCreate([id |-> NilUUID, email |-> email, password |-> "p",
                              role |-> ENUM_ROLE_USER, isVerified |-> FALSE, deleted |-> FALSE],
                             nextUser)
        inserted == ~EmailIndexed(users, email)
    IN  /\ calls[p].pc = "insert"
        /\ users' = IF inserted THEN RegisterRow(users, user) ELSE users
        /\ nextUser' = IF inserted THEN nextUser + 1 ELSE nextUser
        /\ mail' = IF inserted THEN makeVerificationEmail(user.email) ELSE mail
        /\ mailedAt' = IF inserted THEN now ELSE mailedAt
        /\ calls' = [calls EXCEPT ![p] =
                        IF inserted THEN Done(calls[p], user.id, NoError)
                        ELSE Done(calls[p], NilUUID, ErrCreateUser)]
        /\ UNCHANGED <<refreshTokens, now, nextToken, build, rotate, last, pre, jwt,
                       codec, page, zone>>

\* Update up to the GetUserById answer
UpdateGetUser(p, userId, email) ==
    /\ calls[p].pc = "idle"
    /\ calls' = [calls EXCEPT ![p] =
                    IF HasUserId(users, userId)
                    THEN [Idle EXCEPT !.op = "Update", !.pc = "update", !.email = email,
                                      !.userId = userId,
                                      !.role = GetUserById(users, userId).role]
                    ELSE Done([Idle EXCEPT !.op = "Update", !.email = email],
                              userId, ErrUserNotFound)]
    /\ UNCHANGED <<users, refreshTokens, now, nextUser, nextToken, mail, build, rotate,
                   last, pre, jwt, codec, page, zone, mailedAt>>

\* Update from the UPDATE statement to its return
UpdateWrite(p) ==
    LET data == BeforeUpdate([id |-> calls[p].userId, email |-> calls[p].email,
                              password |-> "", role |-> calls[p].role])
    IN  /\ calls[p].pc = "update"
        /\ users' = IF UpdateFails(users, data) THEN users ELSE UpdateUser(users, data)
        /\ calls' = [calls EXCEPT ![p] =
                        Done(calls[p], calls[p].userId,
                             IF UpdateFails(users, data) THEN ErrUpdateUser ELSE NoError)]
        /\ UNCHANGED <<refreshTokens, now, nextUser, nextToken, mail, build, rotate,
                       last, pre, jwt, codec, page, zone, mailedAt>>

\* the users table after zero, one or two earlier registrations
Registered(n) ==
    { BeforeCreate([id |-> NilUUID, email |-> <<"a">>, password |-> "p",
                    role |-> ENUM_ROLE_USER, isVerified |-> FALSE, deleted |-> FALSE], 1) : i \in 1..n }
    \cup
    { BeforeCreate([id |-> NilUUID, email |-> <<"a", "_", "b">>, password |-> "p",
                    role |-> ENUM_ROLE_USER, isVerified |-> FALSE, deleted |-> FALSE], 2) : i \in 2..n }

RaceInit ==
    /\ calls = [p \in Procs |-> Idle]
    /\ \E n \in 0..2 : users = Registered(n) /\ nextUser = n + 1
    /\ refreshTokens = {}
    /\ now = 1
    /\ nextToken = 1
    /\ mail = NoMail
    /\ build = "user"
    /\ rotate = TRUE
    /\ pre = [users |-> {}, refreshTokens |-> {}]
    /\ last = NoCall
    /\ jwt = NoJwt
    /\ codec = NoCodec
    /\ page = NoPage
    /\ zone = UTC
    /\ mailedAt = ZeroTime

RaceNext ==
    \/ \E p \in Procs, email \in Emails : RegisterCheckEmail(p, email)
    \/ \E p \in Procs : RegisterInsert(p)
    \/ \E p \in Procs, userId \in 1..MaxUsers, email \in Emails \cup { << >> } :
          UpdateGetUser(p, userId, email)
    \/ \E p \in Procs : UpdateWrite(p)
    \/ \E userId \in 1..MaxUsers : Delete(userId, {})

RaceSpec == RaceInit /\ [][RaceNext]_vars

\* ----------------------------------------------------- jwt service calls
ClaimKinds == { "absent", "string", "number" }

\* tokens a client can build without the service: the empty string, a string
\* of two segments, and tokens signed under each algorithm and key with each
\* shape of the user_id and role claims
ForgedTokens ==
    { EmptyToken, [EmptyToken EXCEPT !.segments = 2] }
    \cup
    { SignedString(alg, key,
                   [user_id |-> IF uk = "absent" THEN NilUUID ELSE 1, uidKind |-> uk,
                    role |-> IF rk = "string" THEN ENUM_ROLE_ADMIN ELSE "", roleKind |-> rk,
                    exp |-> MaxTime + AccessExpiry]) :
        alg \in SigningMethodHMAC \cup { SigningMethodNone },
        key \in { secretKey, ForeignKey },
        uk \in ClaimKinds, rk \in ClaimKinds }

\* jwtService.GenerateAccessToken called on its own
IssueAccessToken(userId, role, signFails) ==
    /\ jwt' = [NoJwt EXCEPT !.op = "GenerateAccessToken",
                            !.token = AccessTokenString(GenerateAccessToken(userId, role,
                                                                            signFails)),
                            !.signed = ~signFails, !.userId = userId, !.role = role,
                            !.at = now]
    /\ UNCHANGED <<users, refreshTokens, now, nextUser, nextToken, mail, build, rotate,
                   last, pre, calls, codec, page, zone, mailedAt>>

\* a client comes with a token of its own making
PresentToken(token) ==
    /\ jwt' = [NoJwt EXCEPT !.op = "present", !.token = token]
    /\ UNCHANGED <<users, refreshTokens, now, nextUser, nextToken, mail, build, rotate,
                   last, pre, calls, codec, page, zone, mailedAt>>

CallValidateToken ==
    /\ jwt.op # "none"
    /\ jwt' = [jwt EXCEPT !.op = "ValidateToken", !.asked = now,
                          !.parsed = ValidateToken(jwt.token),
                          !.got = NoExtract]
    /\ UNCHANGED <<users, refreshTokens, now, nextUser, nextToken, mail, build, rotate,
                   last, pre, calls, codec, page, zone, mailedAt>>

CallGetUserIDByToken ==
    /\ jwt.op # "none"
    /\ jwt' = [jwt EXCEPT !.op = "GetUserIDByToken", !.asked = now,
                          !.parsed = NilToken,
                          !.got = GetUserIDByToken(jwt.token)]
    /\ UNCHANGED <<users, refreshTokens, now, nextUser, nextToken, mail, build, rotate,
                   last, pre, calls, codec, page, zone, mailedAt>>

\* only the service that authService uses has GetRoleByToken
CallGetRoleByToken ==
    /\ build = "auth"
    /\ jwt.op # "none"
    /\ jwt' = [jwt EXCEPT !.op = "GetRoleByToken", !.asked = now,
                          !.parsed = NilToken,
                          !.got = GetRoleByToken(jwt.token)]
    /\ UNCHANGED <<users, refreshTokens, now, nextUser, nextToken, mail, build, rotate,
                   last, pre, calls, codec, page, zone, mailedAt>>

JwtNext ==
    \/ Tick
    \/ \E userId \in 1..MaxUsers, role \in { ENUM_ROLE_USER, ENUM_ROLE_ADMIN },
          signFails \in BOOLEAN :
          IssueAccessToken(userId, role, signFails)
    \/ \E token \in ForgedTokens : PresentToken(token)
    \/ CallValidateToken
    \/ CallGetUserIDByToken
    \/ CallGetRoleByToken

JwtSpec == Init /\ [][JwtNext]_vars

\* ------------------------------------- access tokens over the token flows
\* the client keeps the access token of the response it has just received
HoldAccessToken ==
    /\ last.access # NoAccess
    /\ jwt' = [NoJwt EXCEPT !.op = "hold", !.token = AccessTokenString(last.access),
                            !.signed = TRUE, !.userId = last.access.uid,
                            !.role = last.access.role, !.at = now]
    /\ UNCHANGED <<users, refreshTokens, now, nextUser, nextToken, mail, build, rotate,
                   last, pre, calls, codec, page, zone, mailedAt>>

SessionNext ==
    \/ Tick
    \/ \E email \in Emails, password \in RegisterPasswords : Register(email, password, FALSE, {})
    \/ build = "auth" /\ VerifyEmail(mail, {})
    \/ \E email \in Emails, password \in RegisterPasswords : Verify(email, password, {})
    \/ \E email \in Emails, password \in RegisterPasswords : Login(email, password, {})
    \/ \E token \in 1..MaxTokens : RefreshToken(token, {})
    \/ \E token \in 1..MaxTokens : AuthRefreshToken(token, {})
    \/ \E userID \in 1..MaxUsers : RevokeRefreshToken(userID, {})
    \/ \E userId \in 1..MaxUsers : Delete(userId, {})
    \/ \E token \in 1..MaxTokens : Logout(token, {})
    \/ HoldAccessToken
    \/ CallValidateToken

SessionSpec == Init /\ [][SessionNext]_vars

\* ------------------------------------------------------------ codec calls
MaxLen == 2
MaxNonce == 2

Chars == { "a", "_" }

Plaintexts == UNION { [1..n -> Chars] : n \in 0..MaxLen }

RandError == "rand error"

\* the empty string: valid hex of zero bytes
EmptyHex == [hex |-> TRUE, size |-> 0, nonce |-> 0, ok |-> FALSE, sealed |-> << >>]

\* utils.AESEncrypt called on its own; nonce is what rand.Reader yields
CallAESEncrypt(stringToEncrypt, nonce, randFails) ==
    /\ codec' = [NoCodec EXCEPT
                    !.op = "AESEncrypt",
                    !.plaintext = stringToEncrypt,
                    !.intact = ~randFails,
                    !.encrypted = IF randFails THEN EmptyHex
                                  ELSE AESEncryptNonce(stringToEncrypt, nonce),
                    !.err = IF randFails THEN RandError ELSE NoError]
    /\ UNCHANGED <<users, refreshTokens, now, nextUser, nextToken, mail, build, rotate,
                   last, pre, calls, jwt, page, zone, mailedAt>>

\* what reaches AESDecrypt is not what AESEncrypt returned: a string that is
\* not hex, the first size bytes of it, or the same bytes with one bit changed
Corruptions(enc) ==
    { [enc EXCEPT !.hex = FALSE], [enc EXCEPT !.ok = FALSE] }
    \cup
    { [enc EXCEPT !.size = size, !.ok = FALSE] :
        size \in { 0, NonceSize - 1, NonceSize, NonceSize + TagSize - 1 } }

Corrupt(enc) ==
    /\ codec.op = "AESEncrypt"
    /\ codec.err = NoError
    /\ enc \in Corruptions(codec.encrypted)
    /\ codec' = [codec EXCEPT !.op = "corrupt", !.intact = FALSE, !.encrypted = enc]
    /\ UNCHANGED <<users, refreshTokens, now, nextUser, nextToken, mail, build, rotate,
                   last, pre, calls, jwt, page, zone, mailedAt>>

\* utils.AESDecrypt called on its own
CallAESDecrypt ==
    /\ codec.op \in {"AESEncrypt", "corrupt"}
    /\ codec' = [codec EXCEPT !.op = "AESDecrypt",
                              !.decrypted = AESDecrypt(codec.encrypted)]
    /\ UNCHANGED <<users, refreshTokens, now, nextUser, nextToken, mail, build, rotate,
                   last, pre, calls, jwt, page, zone, mailedAt>>

CodecNext ==
    \/ \E stringToEncrypt \in Plaintexts, nonce \in 1..MaxNonce, randFails \in BOOLEAN :
          CallAESEncrypt(stringToEncrypt, nonce, randFails)
    \/ \E enc \in Corruptions(codec.encrypted) : Corrupt(enc)
    \/ CallAESDecrypt

CodecSpec == Init /\ [][CodecNext]_vars

\* ------------------------------------------------------ repository.TotalPage
MaxCount == 21
MaxPerPage == 10

\* int64 is modelled with IntWidth bits
IntWidth == 8
MinInt64 == -(2 ^ (IntWidth - 1))
MaxInt64 == 2 ^ (IntWidth - 1) - 1

\* math.Ceil(float64(count) / float64(perPage)) for perPage > 0
Ceil(count, perPage) ==
    IF count % perPage = 0 THEN count \div perPage ELSE (count \div perPage) + 1

\* TotalPage: with perPage = 0 the quotient is +Inf (NaN for count = 0), and
\* the conversion of such a float64 to int64 is implementation-dependent:
\* the smallest int64 on amd64; on arm64 the largest for +Inf and 0 for NaN
TotalPage(count, perPage) ==
    IF perPage # 0 THEN { Ceil(count, perPage) }
    ELSE IF count = 0 THEN { MinInt64, 0 }
    ELSE { MinInt64, MaxInt64 }

CallTotalPage(count, perPage) ==
    /\ \E totalPage \in TotalPage(count, perPage) :
          page' = [op |-> "TotalPage", count |-> count, perPage |-> perPage,
                   totalPage |-> totalPage]
    /\ UNCHANGED <<users, refreshTokens, now, nextUser, nextToken, mail, build, rotate,
                   last, pre, calls, jwt, codec, zone, mailedAt>>

PageNext == \E count \in 0..MaxCount, perPage \in 0..MaxPerPage : CallTotalPage(count, perPage)

PageSpec == Init /\ [][PageNext]_vars

\* ------------------------------------------------ the expiry sweep of tokens
\* variant: the sweep also takes the tokens that expire at this instant
DeleteExpiredInclusive(tbl) == { r \in tbl : ~(r.expiresAt <= now) }

\* DELETE FROM refresh_tokens WHERE expires_at < now
DeleteExpired(tbl) == { r \in tbl : ~(r.expiresAt < now) }

SweepSteps == {"delete"}

\* refreshTokenRepository.DeleteExpired / tokenRepository.DeleteExpiredTokens,
\* called without a transaction
SweepExpired(f) ==
    LET err == IF "delete" \in f THEN DbError ELSE NoError
    IN  /\ refreshTokens' = IF err = NoError THEN DeleteExpired(refreshTokens)
                            ELSE refreshTokens
        /\ pre' = Snapshot
        /\ last' = Result("DeleteExpired", << >>, "", EmptyString, NilUUID, f, err,
                          EmptyTokenResponse)
        /\ mail' = NoMail
        /\ mailedAt' = ZeroTime
        /\ UNCHANGED <<users, now, nextUser, nextToken, build, rotate, calls, jwt, codec,
                       page, zone>>

SweepNext ==
    \/ Tick
    \/ \E email \in Emails, password \in RegisterPasswords : Register(email, password, FALSE, {})
    \/ build = "auth" /\ VerifyEmail(mail, {})
    \/ \E email \in Emails, password \in RegisterPasswords : Verify(email, password, {})
    \/ \E email \in Emails, password \in RegisterPasswords : Login(email, password, {})
    \/ \E token \in 1..MaxTokens : RefreshToken(token, {})
    \/ \E token \in 1..MaxTokens : AuthRefreshToken(token, {})
    \/ \E f \in Faults(SweepSteps) : SweepExpired(f)

SweepSpec == Init /\ [][SweepNext]_vars

\* ------------------------------- concurrent userService.RefreshToken calls
\* Each call runs in its own transaction (READ COMMITTED, the default of
\* PostgreSQL): a statement reads the rows committed when it starts, a DELETE
\* locks the rows it removes until its transaction ends and waits for a row
\* another transaction has locked, and a commit publishes the transaction's
\* deletions and insertions.
InTransaction(p) == calls[p].pc \in {"delete", "deleting", "create", "commit"}

\* rows that transactions other than p's have deleted and not yet committed
LockedByOthers(p) == UNION { calls[q].deleted : q \in { r \in Procs \ {p} : InTransaction(r) } }

\* variant: the DELETE removes the user's rows committed when it finishes,
\* not the rows of its snapshot
DeletedRowsLatest(snap, tbl, userID) == TokensOf(tbl, userID)

\* the rows a DELETE removes once it holds its locks: those of its snapshot
\* that no committed transaction has removed in the meantime
DeletedRows(snap, tbl, userID) == snap \cap tbl

\* RefreshToken from Begin to GenerateRefreshToken
RefreshBegin(p, token) ==
    LET found == HasToken(refreshTokens, token)
        dbToken == FindByToken(refreshTokens, token)
        expired == After(now, dbToken.expiresAt)
        hasUser == HasUserId(users, dbToken.userId)
        user == GetUserById(users, dbToken.userId)
        gen == GenerateRefreshToken(FALSE)
        call == [Idle EXCEPT !.op = "RefreshToken", !.token = token]
    IN  /\ calls[p].pc = "idle"
        /\ nextToken <= MaxTokens
        /\ calls' = [calls EXCEPT ![p] =
                        IF ~found THEN Done(call, NilUUID, MESSAGE_FAILED_INVALID_REFRESH_TOKEN)
                        ELSE IF expired
                        THEN Done(call, NilUUID, MESSAGE_FAILED_EXPIRED_REFRESH_TOKEN)
                        ELSE IF ~hasUser THEN Done(call, NilUUID, ErrUserNotFound)
                        ELSE [call EXCEPT !.pc = "delete", !.userId = user.id,
                                          !.role = user.role,
                                          !.row = [userId |-> user.id, token |-> gen.token,
                                                   expiresAt |-> gen.expiresAt]]]
        /\ nextToken' = IF found /\ ~expired /\ hasUser THEN Drawn(FALSE) ELSE nextToken
        /\ UNCHANGED <<users, refreshTokens, now, nextUser, mail, build, rotate, last, pre,
                       jwt, codec, page, zone, mailedAt>>

\* DeleteByUserID starts: the statement takes its snapshot
RefreshDeleteStart(p) ==
    /\ calls[p].pc = "delete"
    /\ calls' = [calls EXCEPT ![p] =
                    [calls[p] EXCEPT !.pc = "deleting",
                                     !.snap = TokensOf(refreshTokens, calls[p].userId)]]
    /\ UNCHANGED <<users, refreshTokens, now, nextUser, nextToken, mail, build, rotate,
                   last, pre, jwt, codec, page, zone, mailedAt>>

\* DeleteByUserID returns: no row of the snapshot is locked by another
\* transaction any more
RefreshDeleteFinish(p) ==
    /\ calls[p].pc = "deleting"
    /\ calls[p].snap \cap LockedByOthers(p) = {}
    /\ calls' = [calls EXCEPT ![p] =
                    [calls[p] EXCEPT !.pc = "create",
                                     !.deleted = DeletedRows(calls[p].snap, refreshTokens,
                                                             calls[p].userId)]]
    /\ UNCHANGED <<users, refreshTokens, now, nextUser, nextToken, mail, build, rotate,
                   last, pre, jwt, codec, page, zone, mailedAt>>

\* refreshTokenRepo.Create inside the transaction
RefreshCreate(p) ==
    /\ calls[p].pc = "create"
    /\ calls' = [calls EXCEPT ![p] =
                    IF CanCreate(refreshTokens, calls[p].row)
                    THEN [calls[p] EXCEPT !.pc = "commit", !.written = { calls[p].row }]
                    ELSE Done([calls[p] EXCEPT !.deleted = {}], calls[p].userId, DbError)]
    /\ UNCHANGED <<users, refreshTokens, now, nextUser, nextToken, mail, build, rotate,
                   last, pre, jwt, codec, page, zone, mailedAt>>

\* tx.Commit and the return of the token pair
RefreshCommit(p) ==
    /\ calls[p].pc = "commit"
    /\ refreshTokens' = (refreshTokens \ calls[p].deleted) \cup calls[p].written
    /\ calls' = [calls EXCEPT ![p] = Done(calls[p], calls[p].userId, NoError)]
    /\ UNCHANGED <<users, now, nextUser, nextToken, mail, build, rotate, last, pre, jwt,
                   codec, page, zone, mailedAt>>

\* a token drawn before the calls start
EarlierToken == MaxTokens + 1

\* one registered user holding one refresh token, or holding none
RefreshRaceInit ==
    /\ calls = [p \in Procs |-> Idle]
    /\ users = Registered(1)
    /\ \E t \in 1..MaxTime :
          refreshTokens \in { {}, { [userId |-> 1, token |-> EarlierToken, expiresAt |-> t] } }
    /\ now = 1
    /\ nextUser = 2
    /\ nextToken = 1
    /\ mail = NoMail
    /\ build = "user"
    /\ rotate = TRUE
    /\ pre = [users |-> {}, refreshTokens |-> {}]
    /\ last = NoCall
    /\ jwt = NoJwt
    /\ codec = NoCodec
    /\ page = NoPage
    /\ zone = UTC
    /\ mailedAt = ZeroTime

RefreshRaceNext ==
    \/ Tick
    \/ \E p \in Procs, token \in { EarlierToken } \cup 1..MaxTokens : RefreshBegin(p, token)
    \/ \E p \in Procs : RefreshDeleteStart(p)
    \/ \E p \in Procs : RefreshDeleteFinish(p)
    \/ \E p \in Procs : RefreshCreate(p)
    \/ \E p \in Procs : RefreshCommit(p)

RefreshRaceSpec == RefreshRaceInit /\ [][RefreshRaceNext]_vars

\* ------------------------------------- concurrent userService.Verify calls
\* Verify from Begin to GenerateRefreshToken; its DeleteByUserID, Create and
\* Commit are the statements RefreshToken runs
VerifyBegin(p, email, password) ==
    LET found == HasUserEmail(users, email)
        user == GetUserByEmail(users, email)
        credentials == found /\ CheckPassword(user.password, password)
        gen == GenerateRefreshToken(FALSE)
        call == [Idle EXCEPT !.op = "Verify", !.email = email]
    IN  /\ calls[p].pc = "idle"
        /\ nextToken <= MaxTokens
        /\ calls' = [calls EXCEPT ![p] =
                        IF ~found THEN Done(call, NilUUID, VerifyLookupError)
                        ELSE IF ~credentials THEN Done(call, NilUUID, VerifyPasswordError)
                        ELSE [call EXCEPT !.pc = "delete", !.userId = user.id,
                                          !.role = user.role,
                                          !.row = [userId |-> user.id, token |-> gen.token,
                                                   expiresAt |-> gen.expiresAt]]]
        /\ nextToken' = IF credentials THEN Drawn(FALSE) ELSE nextToken
        /\ UNCHANGED <<users, refreshTokens, now, nextUser, mail, build, rotate, last, pre,
                       jwt, codec, page, zone, mailedAt>>

VerifyRaceNext ==
    \/ Tick
    \/ \E p \in Procs, email \in Emails, password \in Passwords : VerifyBegin(p, email, password)
    \/ \E p \in Procs : RefreshDeleteStart(p)
    \/ \E p \in Procs : RefreshDeleteFinish(p)
    \/ \E p \in Procs : RefreshCreate(p)
    \/ \E p \in Procs : RefreshCommit(p)

VerifyRaceSpec == RefreshRaceInit /\ [][VerifyRaceNext]_vars

\* ------------------------------------- verification links and the time zone
Zones == {West, UTC}

ZoneInit ==
    /\ calls = [p \in Procs |-> Idle]
    /\ users = {}
    /\ refreshTokens = {}
    /\ now = 1
    /\ nextUser = 1
    /\ nextToken = 1
    /\ mail = NoMail
    /\ build = "user"
    /\ rotate = TRUE
    /\ pre = [users |-> {}, refreshTokens |-> {}]
    /\ last = NoCall
    /\ jwt = NoJwt
    /\ codec = NoCodec
    /\ page = NoPage
    /\ zone \in Zones
    /\ mailedAt = ZeroTime

ZoneNext ==
    \/ Tick
    \/ \E email \in Emails, password \in RegisterPasswords : Register(email, password, FALSE, {})
    \/ \E email \in Emails, f \in Faults(SendSteps) : SendVerificationEmail(email, f)
    \/ \E f \in Faults(VerifyEmailSteps) : VerifyEmail(mail, f)

ZoneSpec == ZoneInit /\ [][ZoneNext]_vars

\* ------------------------------------------ panics in the transactional flows
\* one user registers; the flows are called for that user, for an email and
\* an id no user has, and for every token
PanicNext ==
    \/ Tick
    \/ \E password \in RegisterPasswords : Register(<<"a">>, password, FALSE, {})
    \/ \E email \in Emails, password \in Passwords,
          f \in Faults(VerifySteps) \cup Panics(VerifySteps) : Verify(email, password, f)
    \/ \E token \in 0..MaxTokens, f \in Faults(RefreshTokenSteps) \cup Panics(RefreshTokenSteps) :
          RefreshToken(token, f)
    \/ \E userID \in 1..MaxUsers, f \in Faults(RevokeSteps) \cup Panics(RevokeSteps) :
          RevokeRefreshToken(userID, f)
    \/ \E userId \in 1..MaxUsers, f \in Faults(DeleteSteps) \cup Panics(DeleteSteps) :
          Delete(userId, f)

PanicSpec == AccountInit /\ [][PanicNext]_vars

\* ------------------------------------------------------------------ claims
\* C1: after a successful RefreshToken(tok) with rotation in effect (always in
\* userService, in authService when RotateRefreshToken is set) tok is no longer
\* in the store, the returned refresh token differs from tok and is in the
\* store; and a RefreshToken call for a token that is not in the store fails
\* with the invalid-refresh-token error of its service.
RotationRetiresPresentedToken ==
    /\ (last.op \in {"RefreshToken", "AuthRefreshToken"} /\ rotate /\ last.err = NoError)
          => /\ ~HasToken(refreshTokens, last.token)
             /\ last.refresh # last.token
             /\ HasToken(refreshTokens, last.refresh)
    /\ (last.op = "RefreshToken" /\ ~HasToken(pre.refreshTokens, last.token))
          => last.err = MESSAGE_FAILED_INVALID_REFRESH_TOKEN
    /\ (last.op = "AuthRefreshToken" /\ ~HasToken(pre.refreshTokens, last.token))
          => last.err = ErrInvalidRefreshToken

\* C2: a RefreshToken call of either service for a token that is in the store
\* with expiresAt earlier than the current time never succeeds: it issues no
\* access and no refresh token and adds no row, and once the lookup has
\* returned the row the error is the expired-refresh-token error of the service.
ExpiredTokenNeverRefreshes ==
    (/\ last.op \in {"RefreshToken", "AuthRefreshToken"}
     /\ HasToken(pre.refreshTokens, last.token)
     /\ FindByToken(pre.refreshTokens, last.token).expiresAt < now)
    => /\ last.err # NoError
       /\ last.access = NoAccess
       /\ last.refresh = EmptyString
       /\ refreshTokens \subseteq pre.refreshTokens
       /\ "find" \notin last.fault
             => last.err = IF last.op = "RefreshToken"
                           THEN MESSAGE_FAILED_EXPIRED_REFRESH_TOKEN
                           ELSE ErrExpiredRefreshToken

\* C2 case: userService.RefreshToken has just refused a token that was issued
\* with a real expiry, has outlived it, and is still in the store.
ExpiredTokenRefused ==
    /\ last.op = "RefreshToken"
    /\ HasToken(pre.refreshTokens, last.token)
    /\ FindByToken(pre.refreshTokens, last.token).expiresAt # ZeroTime
    /\ FindByToken(pre.refreshTokens, last.token).expiresAt < now
    /\ last.err = MESSAGE_FAILED_EXPIRED_REFRESH_TOKEN
    /\ HasToken(refreshTokens, last.token)

\* C3: in userService.Verify, RefreshToken, RevokeRefreshToken and Delete a
\* failing store step or a failing commit makes the call return an error, and a
\* call that returns an error leaves the users and refresh_tokens tables exactly
\* as it found them.
FailedTransactionChangesNothing ==
    last.op \in {"Verify", "RefreshToken", "RevokeRefreshToken", "Delete"}
    => /\ (last.fault \cap {"find", "getUser", "delete", "deleteUser", "create", "commit"} # {})
             => last.err # NoError
       /\ last.err # NoError
             => users = pre.users /\ refreshTokens = pre.refreshTokens

\* C3 case: Verify has deleted the tokens the user held, then its INSERT failed.
VerifyInsertFailedAfterDelete ==
    /\ last.op = "Verify"
    /\ last.fault = {"create"}
    /\ last.err # NoError
    /\ HasUserEmail(pre.users, last.email)
    /\ TokensOf(pre.refreshTokens, GetUserByEmail(pre.users, last.email).id) # {}

\* C4: after a successful userService.Verify for user u the store holds
\* exactly one refresh token of u, it is the one returned and its expiry is in
\* the future; no token u held before is left; tokens of other users are as
\* they were.
LoginLeavesOneFreshToken ==
    (last.op = "Verify" /\ last.err = NoError)
    => LET u == GetUserByEmail(pre.users, last.email).id
       IN  /\ Cardinality(TokensOf(refreshTokens, u)) = 1
           /\ \A r \in TokensOf(refreshTokens, u) :
                 r.token = last.refresh /\ r.expiresAt > now
           /\ TokensOf(pre.refreshTokens, u) \cap refreshTokens = {}
           /\ refreshTokens \ TokensOf(refreshTokens, u)
                 = pre.refreshTokens \ TokensOf(pre.refreshTokens, u)

\* C5: after a successful userService.Delete(userId) GetUserById no longer
\* finds the user and no refresh token carries that user id, while every other
\* user row and every other token is as before; for an id that matches no user
\* the call returns ErrUserNotFound and changes nothing.
DeleteRemovesUserAndTokens ==
    last.op = "Delete"
    => /\ last.err = NoError
             => /\ ~HasUserId(users, last.userId)
                /\ TokensOf(refreshTokens, last.userId) = {}
                /\ refreshTokens = pre.refreshTokens \ TokensOf(pre.refreshTokens, last.userId)
                /\ { u \in users : u.id # last.userId }
                      = { u \in pre.users : u.id # last.userId }
       /\ ~HasUserId(pre.users, last.userId)
             => /\ last.err = ErrUserNotFound
                /\ users = pre.users
                /\ refreshTokens = pre.refreshTokens

\* C5 case: Delete has succeeded for a user who held a token while another
\* user holds one too.
DeletedUserHeldToken ==
    /\ last.op = "Delete"
    /\ last.err = NoError
    /\ TokensOf(pre.refreshTokens, last.userId) # {}
    /\ \E r \in refreshTokens : r.userId # last.userId

\* C6: userService.Verify answers an unknown email and a known email with a
\* wrong password with the same message "invalid email or password", returns
\* no token and stores none.
VerifyFailuresIndistinguishable ==
    (/\ last.op = "Verify"
     /\ \/ ~HasUserEmail(pre.users, last.email)
        \/ ~CheckPassword(GetUserByEmail(pre.users, last.email).password, last.password))
    => /\ last.err = "invalid email or password"
       /\ last.access = NoAccess
       /\ last.refresh = EmptyString
       /\ refreshTokens = pre.refreshTokens

\* C6 case: Verify has refused a registered email because of a wrong password.
VerifyWrongPasswordRefused ==
    /\ last.op = "Verify"
    /\ last.fault = {}
    /\ HasUserEmail(pre.users, last.email)
    /\ ~CheckPassword(GetUserByEmail(pre.users, last.email).password, last.password)
    /\ last.err = "invalid email or password"

\* C7: any two consecutive authService.Login calls that fail on the
\* credentials (email not registered, account not verified, wrong password)
\* return one and the same error value.
LoginFailuresIndistinguishable ==
    [][ (/\ last.op = "Login" /\ last'.op = "Login"
         /\ last.err \notin {NoError, SigningError, DbError}
         /\ last'.err \notin {NoError, SigningError, DbError})
        => last'.err = last.err ]_vars

\* C8: userService.Verify for a user whose IsVerified flag is false fails with
\* "invalid email or password", returns no token and stores none, whatever the
\* password.
UnverifiedCannotLogin ==
    (/\ last.op = "Verify"
     /\ HasUserEmail(pre.users, last.email)
     /\ ~GetUserByEmail(pre.users, last.email).isVerified)
    => /\ last.err = "invalid email or password"
       /\ last.access = NoAccess
       /\ last.refresh = EmptyString
       /\ refreshTokens = pre.refreshTokens

\* C9: when RefreshToken of either service finds the presented token in the
\* store with a real expiresAt that has passed, the call returns the expired-refresh-token
\* error and the row is no longer in the store.
ExpiredTokenIsDeleted ==
    (/\ last.op \in {"RefreshToken", "AuthRefreshToken"}
     /\ "find" \notin last.fault
     /\ HasToken(pre.refreshTokens, last.token)
     /\ FindByToken(pre.refreshTokens, last.token).expiresAt # ZeroTime
     /\ After(now, FindByToken(pre.refreshTokens, last.token).expiresAt))
    => /\ last.err \in {MESSAGE_FAILED_EXPIRED_REFRESH_TOKEN, ErrExpiredRefreshToken}
       /\ ~HasToken(refreshTokens, last.token)

\* C10: when storing the new refresh token fails in authService.Login or in
\* the rotation branch of authService.RefreshToken, the call returns an error
\* and every refresh token that was in the store before the call still is.
AuthStoreFailureKeepsTokens ==
    (/\ last.op = "Login" \/ (last.op = "AuthRefreshToken" /\ rotate)
     /\ "create" \in last.fault)
    => /\ last.err # NoError
       /\ pre.refreshTokens \subseteq refreshTokens


\* C11: with RotateRefreshToken false a successful authService.RefreshToken(tok)
\* returns an access token together with tok itself and leaves the
\* refresh-token store as it was, tok still stored and unexpired; and every
\* call for a stored, unexpired token of an existing user whose steps all work
\* succeeds, so tok is redeemable again and again until it expires.
NoRotationKeepsToken ==
    (last.op = "AuthRefreshToken" /\ ~rotate)
    => /\ last.err = NoError
             => /\ last.refresh = last.token
                /\ last.access # NoAccess
                /\ refreshTokens = pre.refreshTokens
                /\ HasToken(refreshTokens, last.token)
                /\ ~(FindByToken(refreshTokens, last.token).expiresAt < now)
       /\ (/\ last.fault = {}
           /\ HasToken(pre.refreshTokens, last.token)
           /\ ~(FindByToken(pre.refreshTokens, last.token).expiresAt < now)
           /\ HasUserId(users, FindByToken(pre.refreshTokens, last.token).userId))
             => last.err = NoError

\* C11 case: a refresh without rotation has succeeded and handed tok back.
RefreshedWithoutRotation ==
    /\ last.op = "AuthRefreshToken"
    /\ ~rotate
    /\ last.err = NoError
    /\ last.refresh = last.token
    /\ HasToken(refreshTokens, last.token)

\* C12: authService.Logout(tok) whose DELETE works returns no error and removes
\* the row with token value tok and no other row, which for a token that is
\* not stored (a second Logout included) is no change at all; a Logout whose
\* DELETE fails returns the error and changes nothing; and RefreshToken for a
\* token that is not in the store fails with ErrInvalidRefreshToken.
LogoutRemovesOnlyThatToken ==
    /\ (last.op = "Logout" /\ last.fault = {})
          => /\ last.err = NoError
             /\ refreshTokens = { r \in pre.refreshTokens : r.token # last.token }
             /\ ~HasToken(pre.refreshTokens, last.token) => refreshTokens = pre.refreshTokens
    /\ (last.op = "Logout" /\ last.fault # {})
          => last.err # NoError /\ refreshTokens = pre.refreshTokens
    /\ (last.op = "AuthRefreshToken" /\ ~HasToken(pre.refreshTokens, last.token))
          => /\ last.err = ErrInvalidRefreshToken
             /\ refreshTokens = pre.refreshTokens

\* C12 case: Logout has just removed a token that was stored.
LoggedOutStoredToken ==
    /\ last.op = "Logout"
    /\ last.err = NoError
    /\ HasToken(pre.refreshTokens, last.token)
    /\ ~HasToken(refreshTokens, last.token)

\* C13: userService.RevokeRefreshToken(userId) that succeeds has found the
\* user and leaves no refresh token of that user (also when there was none)
\* and every token of every other user; a call whose steps all work succeeds
\* for an existing user; for an id that matches no user the call returns
\* ErrUserNotFound and the store is unchanged.
RevokeRemovesOnlyThatUsersTokens ==
    last.op = "RevokeRefreshToken"
    => /\ last.err = NoError
             => /\ HasUserId(pre.users, last.userId)
                /\ TokensOf(refreshTokens, last.userId) = {}
                /\ refreshTokens = { r \in pre.refreshTokens : r.userId # last.userId }
       /\ (last.fault = {} /\ HasUserId(pre.users, last.userId)) => last.err = NoError
       /\ ~HasUserId(pre.users, last.userId)
             => /\ last.err = ErrUserNotFound
                /\ refreshTokens = pre.refreshTokens
       /\ users = pre.users

\* C13 case: a revoke has removed the tokens of one user while another user
\* keeps a token.
RevokedOneOfTwoHolders ==
    /\ last.op = "RevokeRefreshToken"
    /\ last.err = NoError
    /\ TokensOf(pre.refreshTokens, last.userId) # {}
    /\ \E r \in refreshTokens : r.userId # last.userId

\* C15: userService.Register with an email that a stored (not deleted) user
\* has changes nothing: no user row is inserted or changed, no token row
\* changes, no file is uploaded and no mail goes out; and once the lookup has
\* answered, the error is ErrEmailAlreadyExists.
RegisterTakenEmailChangesNothing ==
    (last.op = "Register" /\ HasUserEmail(pre.users, last.email))
    => /\ users = pre.users
       /\ Cardinality(users) = Cardinality(pre.users)
       /\ refreshTokens = pre.refreshTokens
       /\ ~last.uploaded
       /\ mail = NoMail
       /\ last.err # NoError
       /\ "check" \notin last.fault => last.err = ErrEmailAlreadyExists

\* C15 case: a second Register with the email of a stored user was refused.
RegisterTakenEmailRefused ==
    /\ last.op = "Register"
    /\ last.fault = {}
    /\ HasUserEmail(pre.users, last.email)
    /\ last.err = ErrEmailAlreadyExists

\* C16: when the template or the mail step fails after the INSERT,
\* userService.Register returns that step's error and the new row is stored,
\* unverified, beside the rows that were there; SendVerificationEmail never
\* changes a table and, its steps working, succeeds for the email of a stored
\* user and hands out a token; Register for the email of a stored user
\* answers ErrEmailAlreadyExists.
RegisterMailFailureKeepsUser ==
    /\ (last.op = "Register" /\ last.fault \cap {"template", "mail"} # {})
          => /\ last.err = IF "template" \in last.fault THEN TemplateError ELSE MailError
             /\ mail = NoMail
             /\ \E u \in users :
                   /\ u \notin pre.users
                   /\ u.email = last.email
                   /\ ~u.isVerified /\ ~u.deleted
                   /\ users = pre.users \cup { u }
    /\ last.op = "SendVerificationEmail"
          => /\ users = pre.users
             /\ refreshTokens = pre.refreshTokens
             /\ (last.fault = {} /\ HasUserEmail(pre.users, last.email))
                   => last.err = NoError /\ mail # NoMail
    /\ (last.op = "Register" /\ last.fault = {} /\ HasUserEmail(pre.users, last.email))
          => last.err = ErrEmailAlreadyExists /\ users = pre.users

\* C16 case: Register has failed at the mail step and left the new row.
RegisterFailedAtMail ==
    /\ last.op = "Register"
    /\ last.fault = {"mail"}
    /\ last.err = MailError
    /\ ~HasUserEmail(pre.users, last.email)
    /\ HasUserEmail(users, last.email)
    /\ ~GetUserByEmail(users, last.email).isVerified

\* C14: however the statements of concurrent Register and Update calls (and
\* deletions between them) interleave, no two users that are not deleted have
\* the same email; and as long as the calls are Register calls only, at most
\* one of those with a given email has returned success and at most one row
\* with that email exists.
EmailUniqueUnderRaces ==
    /\ \A u, v \in LiveUsers(users) : u.email = v.email => u = v
    /\ (\A p \in Procs : calls[p].op # "Update")
          => \A e \in Emails :
                /\ Cardinality({ p \in Procs : /\ calls[p].op = "Register"
                                                /\ calls[p].pc = "done"
                                                /\ calls[p].email = e
                                                /\ calls[p].err = NoError }) <= 1
                /\ Cardinality({ u \in users : u.email = e }) <= 1

\* C14 case: two Register calls for one email have both passed CheckEmail; one
\* has inserted the row and the other was refused by the index.
TwoRegistersRaced ==
    \E p, q \in Procs :
        /\ calls[p].op = "Register" /\ calls[q].op = "Register"
        /\ calls[p].email = calls[q].email
        /\ calls[p].pc = "done" /\ calls[p].err = NoError
        /\ calls[q].pc = "done" /\ calls[q].err = ErrCreateUser
        /\ \A u \in users : ~u.deleted

\* C17: for every email e of a stored unverified user, with or without a '_'
\* in it, the token makeVerificationEmail builds for e, presented to
\* VerifyEmail no later than its expiry and with the store working, verifies:
\* the call succeeds, answers {email: e, isVerified: true} and the user's
\* isVerified is true afterwards.
VerificationRoundTrip ==
    \A e \in Emails, t \in 0..(MaxTime + VerifyExpiry) :
        (/\ last.op = "VerifyEmail"
         /\ last.fault = {}
         /\ last.link = AESEncrypt(e \o <<"_">> \o << FormatTime(t) >>)
         /\ now <= t
         /\ HasUserEmail(pre.users, e)
         /\ ~GetUserByEmail(pre.users, e).isVerified)
        => /\ last.err = NoError
           /\ last.email = e
           /\ last.isVerified
           /\ HasUserEmail(users, e)
           /\ GetUserByEmail(users, e).isVerified

ExpiredLinkKeepsEmail ==
    \A e \in Emails, t \in 0..(MaxTime + VerifyExpiry) :
        (/\ last.op = "VerifyEmail"
         /\ ~(\E i \in 1..Len(e) : e[i] = "_")
         /\ last.link = AESEncrypt(e \o <<"_">> \o << FormatTime(t) >>)
         /\ t < now)
        => /\ last.err = ErrTokenExpired
           /\ last.email = e
           /\ ~last.isVerified
           /\ users = pre.users
           /\ refreshTokens = pre.refreshTokens

\* C19 case: the link mailed to a stored, unverified user was presented after
\* its expiry.
ExpiredLinkOfStoredUser ==
    /\ last.op = "VerifyEmail"
    /\ last.err = ErrTokenExpired
    /\ last.link \notin CraftedTokens
    /\ HasUserEmail(users, last.email)
    /\ ~GetUserByEmail(users, last.email).isVerified

\* C20: VerifyEmail returns ErrTokenInvalid with the empty response and
\* changes no row whenever the token does not decrypt, its text has no '_',
\* or the part after the first '_' is not a timestamp.
MalformedLinkIsInvalid ==
    (/\ last.op = "VerifyEmail"
     /\ \/ ~last.link.ok
        \/ ~(\E i \in 1..Len(last.link.sealed) : last.link.sealed[i] = "_")
        \/ \A t \in 0..(MaxTime + VerifyExpiry) :
              Split(last.link.sealed, "_")[2] # << FormatTime(t) >>)
    => /\ last.err = ErrTokenInvalid
       /\ last.email = << >>
       /\ ~last.isVerified
       /\ users = pre.users
       /\ refreshTokens = pre.refreshTokens

\* C20 case: a token that decrypts to a text whose second part is no
\* timestamp was refused.
MalformedLinkRefused ==
    /\ last.op = "VerifyEmail"
    /\ last.link.ok
    /\ \E i \in 1..Len(last.link.sealed) : last.link.sealed[i] = "_"
    /\ last.err = ErrTokenInvalid

\* C21: after any sequence of Register, Update and VerifyEmail calls every
\* stored user's password is the hash of a submitted plaintext and never a
\* plaintext, and the role is user or admin; a row that Register has just
\* inserted has a non-nil id, role user and isVerified false.
PasswordsHashedRolesValid ==
    /\ \A u \in users :
          /\ u.password \notin Passwords
          /\ \E p \in Passwords : CheckPassword(u.password, p)
          /\ u.role \in {ENUM_ROLE_USER, ENUM_ROLE_ADMIN}
    /\ last.op = "Register" =>
          \A u \in users \ pre.users :
              u.id # NilUUID /\ u.role = ENUM_ROLE_USER /\ ~u.isVerified

\* an Update has rewritten the row of a registered user
UpdatedRegisteredUser ==
    /\ last.op = "Update"
    /\ last.err = NoError
    /\ users # pre.users
    /\ \E u \in users : u.id = last.userId /\ u.email = last.email

\* C22: ValidateToken answers with an error, and with no token it found
\* valid, for the empty string, for a string that has not three segments, for
\* a token whose algorithm is not HS256 (HS512 under the right secret and alg
\* none included) and for a token signed with another key.
ForeignTokensRejected ==
    (/\ jwt.op = "ValidateToken"
     /\ \/ jwt.token = EmptyToken
        \/ jwt.token.segments # 3
        \/ jwt.token.alg # SigningMethodHS256
        \/ jwt.token.key # secretKey)
    => (jwt.parsed.err # NoError /\ ~jwt.parsed.valid)

\* C23: GetUserIDByToken and GetRoleByToken never panic, and they return an
\* error for a token that ValidateToken rejects and for a validly signed
\* token whose user_id (for GetUserIDByToken) or role (for GetRoleByToken)
\* claim is absent or not a string.
ExtractionFailsOnBadClaims ==
    /\ jwt.op \in {"GetUserIDByToken", "GetRoleByToken"} =>
          /\ ~jwt.got.panic
          /\ ValidateToken(jwt.token).err # NoError => jwt.got.err # NoError
    /\ (jwt.op = "GetUserIDByToken" /\ jwt.token.claims.uidKind # "string")
          => jwt.got.err # NoError
    /\ (jwt.op = "GetRoleByToken" /\ jwt.token.claims.roleKind # "string")
          => jwt.got.err # NoError

\* C24: a token that GenerateAccessToken(uid, role) signed passes
\* ValidateToken at every instant before its expiry, and GetUserIDByToken and
\* GetRoleByToken give back uid and role.
AccessTokenRoundTrip ==
    (jwt.signed /\ jwt.asked < jwt.at + AccessExpiry) =>
        /\ jwt.op = "ValidateToken" => (jwt.parsed.err = NoError /\ jwt.parsed.valid)
        /\ jwt.op = "GetUserIDByToken" =>
              /\ jwt.got = [NoExtract EXCEPT !.userId = jwt.userId]
        /\ jwt.op = "GetRoleByToken" =>
              /\ jwt.got = [NoExtract EXCEPT !.role = jwt.role]

\* the role of an issued admin token was read back
AdminRoleReadBack ==
    /\ jwt.op = "GetRoleByToken"
    /\ jwt.signed
    /\ jwt.role = ENUM_ROLE_ADMIN
    /\ jwt.got.role = ENUM_ROLE_ADMIN
    /\ jwt.got.err = NoError

\* C25: ValidateToken accepts an issued access token at every instant before
\* the expiry it embeds and rejects it at every instant after, whatever has
\* happened since to the user and to the refresh tokens (logout, revocation,
\* rotation, deletion of the user).
AccessTokenValidByTimeOnly ==
    (jwt.op = "ValidateToken" /\ jwt.signed) =>
        /\ jwt.asked < jwt.token.claims.exp => (jwt.parsed.err = NoError /\ jwt.parsed.valid)
        /\ jwt.asked > jwt.token.claims.exp => (jwt.parsed.err # NoError /\ ~jwt.parsed.valid)

\* the access token of a user was accepted after the user was deleted or
\* left without any refresh token
AcceptedAfterSessionEnded ==
    /\ jwt.op = "ValidateToken"
    /\ jwt.signed
    /\ jwt.parsed.valid
    /\ last.op \in {"Delete", "RevokeRefreshToken", "Logout"}
    /\ last.err = NoError
    /\ TokensOf(refreshTokens, jwt.userId) = {}
    /\ TokensOf(pre.refreshTokens, jwt.userId) # {}

\* C26: AESDecrypt does not panic and returns the empty plaintext with every
\* error: "error in decoding encrypted string" for a string that is not hex,
\* "ciphertext too short" for hex of fewer bytes than a nonce, "error
\* decrypting" when the tag does not verify.
DecryptFailsCleanly ==
    codec.op = "AESDecrypt" =>
        /\ ~codec.decrypted.panic
        /\ codec.decrypted.err => codec.decrypted.text = << >>
        /\ ~codec.encrypted.hex => codec.decrypted.message = ErrDecodeEncrypted
        /\ (codec.encrypted.hex /\ codec.encrypted.size < NonceSize)
              => codec.decrypted.message = ErrCiphertextTooShort
        /\ (codec.encrypted.hex /\ codec.encrypted.size >= NonceSize /\ ~codec.encrypted.ok)
              => codec.decrypted.message = ErrDecrypting

\* a ciphertext of a non-empty string with one bit changed was refused
TamperedCiphertextRefused ==
    /\ codec.op = "AESDecrypt"
    /\ codec.plaintext # << >>
    /\ codec.encrypted.hex
    /\ codec.encrypted.size = NonceSize + Len(codec.plaintext) + TagSize
    /\ ~codec.encrypted.ok
    /\ codec.decrypted.message = ErrDecrypting

\* C27: for every string s, the empty one included, and every nonce,
\* AESDecrypt applied to what AESEncrypt returned for s gives s and no error.
CodecRoundTrip ==
    (codec.op = "AESDecrypt" /\ codec.intact) =>
        /\ ~codec.decrypted.err
        /\ codec.decrypted.message = NoError
        /\ codec.decrypted.text = codec.plaintext

\* the empty string came back from a ciphertext under the second nonce
EmptyStringCameBack ==
    /\ codec.op = "AESDecrypt"
    /\ codec.intact
    /\ codec.plaintext = << >>
    /\ codec.encrypted.nonce = MaxNonce
    /\ codec.decrypted.text = << >>
    /\ ~codec.decrypted.err

\* C28: TotalPage(count, perPage) is the ceiling of count / perPage for
\* count >= 0 and perPage > 0, and 0 for perPage = 0.
TotalPageIsCeiling ==
    page.op = "TotalPage" =>
        /\ page.perPage > 0 =>
              /\ page.totalPage * page.perPage >= page.count
              /\ (page.totalPage - 1) * page.perPage < page.count
        /\ page.perPage = 0 => page.totalPage = 0

\* C29: a successful DeleteExpired removes the refresh tokens whose expiresAt
\* is earlier than the current time and no other, so that right after it no
\* stored token is one that RefreshToken refuses as expired.
SweepRemovesExactlyExpired ==
    (last.op = "DeleteExpired" /\ last.err = NoError) =>
        /\ \A r \in pre.refreshTokens : r \in refreshTokens <=> r.expiresAt >= now
        /\ refreshTokens \subseteq pre.refreshTokens
        /\ \A r \in refreshTokens : ~(now > r.expiresAt)

\* a sweep took an expired token and left a live one of another user
SweptOneOfTwo ==
    /\ last.op = "DeleteExpired"
    /\ last.err = NoError
    /\ refreshTokens # {}
    /\ refreshTokens # pre.refreshTokens
    /\ \E r \in refreshTokens : r.expiresAt = now

\* C30: no lock keeps two userService.RefreshToken calls from redeeming the
\* same stored token.  When two calls presenting one token have both
\* succeeded they returned different new tokens, and the new token of either
\* is in the store unless the DELETE of another committed call had it in its
\* snapshot.
DoubleRedemptionKeepsUnseenTokens ==
    \A p, q \in Procs :
        (/\ p # q
         /\ calls[p].pc = "done" /\ calls[q].pc = "done"
         /\ calls[p].op = "RefreshToken" /\ calls[q].op = "RefreshToken"
         /\ calls[p].err = NoError /\ calls[q].err = NoError
         /\ calls[p].token = calls[q].token) =>
            /\ calls[p].row.token # calls[q].row.token
            /\ calls[p].row \in refreshTokens <=>
                  \A r \in Procs \ {p} :
                      ~(/\ calls[r].pc = "done"
                        /\ calls[r].err = NoError
                        /\ calls[p].row \in calls[r].snap)

\* both calls have succeeded on the same token and both new tokens are in
\* the store, neither of them expired
BothNewTokensStored ==
    \E p, q \in Procs :
        /\ p # q
        /\ calls[p].pc = "done" /\ calls[q].pc = "done"
        /\ calls[p].op = "RefreshToken" /\ calls[q].op = "RefreshToken"
        /\ calls[p].err = NoError /\ calls[q].err = NoError
        /\ calls[p].token = calls[q].token
        /\ calls[p].row \in refreshTokens
        /\ calls[q].row \in refreshTokens
        /\ ~After(now, calls[p].row.expiresAt)
        /\ ~After(now, calls[q].row.expiresAt)

\* C31: when two userService.Verify calls for the same user have both
\* committed, exactly one refresh token of that user is in the store.
ConcurrentLoginsLeaveOneToken ==
    \A p, q \in Procs :
        (/\ p # q
         /\ calls[p].pc = "done" /\ calls[q].pc = "done"
         /\ calls[p].op = "Verify" /\ calls[q].op = "Verify"
         /\ calls[p].err = NoError /\ calls[q].err = NoError
         /\ calls[p].userId = calls[q].userId) =>
            Cardinality(TokensOf(refreshTokens, calls[p].userId)) = 1

\* C32: a userService.Verify or userService.RefreshToken call in which the
\* signing of the access token or the random source of the refresh token
\* fails returns an error, leaves the store as it was and returns no token;
\* and no successful call of the two returns or stores an empty access-token
\* or refresh-token string.
GenerationFailureFailsCall ==
    (last.op \in {"Verify", "RefreshToken"}) =>
        /\ (last.fault \cap {"sign", "rand"} # {}) =>
              /\ last.err # NoError
              /\ refreshTokens = pre.refreshTokens
              /\ last.access = NoAccess
              /\ last.refresh = EmptyString
        /\ (last.err = NoError) =>
              /\ last.access # NoAccess
              /\ last.refresh # EmptyString
              /\ ~HasToken(refreshTokens, EmptyString)

\* C33: once userService.Delete has committed, the deleted user's email is
\* free: a Register call with that email, none of whose steps fails, returns
\* no error and stores a new unverified user holding the email.
DeletedEmailCanRegisterAgain ==
    (/\ last.op = "Register"
     /\ last.fault = {}
     /\ \E u \in pre.users : u.deleted /\ u.email = last.email
     /\ ~HasUserEmail(pre.users, last.email)) =>
        /\ last.err = NoError
        /\ \E u \in LiveUsers(users) :
              /\ u.email = last.email
              /\ u.id = last.userId
              /\ u \notin pre.users
              /\ ~u.isVerified

\* C34: in every time zone of the server, the token Register or
\* SendVerificationEmail mailed at instant t to an address without the
\* separator character is not answered with
\* ErrTokenExpired or ErrTokenInvalid by a VerifyEmail call at an instant up
\* to t + VerifyExpiry, and is answered with ErrTokenExpired at every later
\* instant.
LinkLivesItsDayInEveryZone ==
    (/\ last.op = "VerifyEmail"
     /\ last.link = mail
     /\ mail # NoMail
     /\ Len(Split(AESDecrypt(mail).text, "_")) = 2) =>
        /\ (now <= mailedAt + VerifyExpiry) => last.err \notin {ErrTokenExpired, ErrTokenInvalid}
        /\ (now > mailedAt + VerifyExpiry) => last.err = ErrTokenExpired

\* C35: once userService.Delete has committed for user u, u gets no new
\* tokens: no refresh token of u is in the store, a Verify call with u's
\* email fails with "invalid email or password", returns no token and leaves
\* the store alone, and a RefreshToken call succeeds only for a token whose
\* owner is not deleted.
DeletedUserGetsNoTokens ==
    /\ \A u \in users : u.deleted => \A r \in refreshTokens : r.userId # u.id
    /\ (last.op = "Delete" /\ last.err = NoError) =>
          \E u \in users : u.id = last.userId /\ u.deleted
    /\ (last.op = "Verify" /\ \E u \in pre.users : u.deleted /\ u.email = last.email) =>
          /\ last.err = "invalid email or password"
          /\ last.access = NoAccess
          /\ last.refresh = EmptyString
          /\ refreshTokens = pre.refreshTokens
    /\ (last.op = "RefreshToken" /\ last.err = NoError) =>
          \E u \in users, r \in pre.refreshTokens :
              r.token = last.token /\ r.userId = u.id /\ ~u.deleted

\* a login with the email and the password of a deleted user was refused
LoginOfDeletedUserRefused ==
    /\ last.op = "Verify"
    /\ last.fault = {}
    /\ last.err = "invalid email or password"
    /\ \E u \in users :
          /\ u.deleted
          /\ u.email = last.email
          /\ u.password = HashPassword(last.password)

\* C36: a successful RefreshToken call of either service answers for the
\* owner of the presented token: the access token carries the owner's id and
\* stored role, the refresh token returned is in the store under the owner's
\* id, and the stored tokens of every other user are as before the call.
RefreshedTokensBelongToOwner ==
    (last.op \in {"RefreshToken", "AuthRefreshToken"} /\ last.err = NoError) =>
        \E r \in pre.refreshTokens, u \in users :
            /\ r.token = last.token
            /\ u.id = r.userId
            /\ ~u.deleted
            /\ last.access.uid = u.id
            /\ last.access.role = u.role
            /\ \E n \in refreshTokens : n.token = last.refresh /\ n.userId = u.id
            /\ \A n \in refreshTokens \cup pre.refreshTokens :
                  n.userId # u.id => (n \in refreshTokens <=> n \in pre.refreshTokens)

\* C37: when a step of userService.Delete, Verify, RefreshToken or
\* RevokeRefreshToken panics after Begin, the deferred SafeRollback rolls the
\* transaction back once, both tables are as before the call, and the panic
\* reaches the caller.
PanicRollsBackAndPropagates ==
    (/\ last.op \in {"Delete", "Verify", "RefreshToken", "RevokeRefreshToken"}
     /\ "panic" \in last.fault) =>
        /\ users = pre.users
        /\ refreshTokens = pre.refreshTokens
        /\ last.tx.rollbacks = 1
        /\ last.tx.commits = 0
        /\ last.tx.repanic
        /\ last.err = "panic"
        /\ last.access = NoAccess
        /\ last.refresh = EmptyString

\* Delete panicked in userRepo.Delete, after the DELETE of the user's tokens
\* had run inside the transaction, and the tokens are still stored
DeletePanickedAfterTokenDelete ==
    /\ last.op = "Delete"
    /\ last.fault = {"panic", "deleteUser"}
    /\ last.tx.repanic
    /\ \E r \in refreshTokens : r.userId = last.userId

\* C38: every userService.Delete, Verify, RefreshToken and
\* RevokeRefreshToken call, however it returns and also when it panics, has
\* finished its transaction exactly once: by one tx.Commit and no
\* tx.Rollback, or by one tx.Rollback and no tx.Commit.
TransactionFinishedOnce ==
    (last.op \in {"Delete", "Verify", "RefreshToken", "RevokeRefreshToken"}) =>
        /\ last.tx.commits + last.tx.rollbacks = 1
        /\ (last.err = NoError) => last.tx.commits = 1

\* a flow returned the error of a failed tx.Commit: it had called Commit
\* once and Rollback never
CommitFailureReturned ==
    /\ last.op \in {"Delete", "Verify", "RefreshToken", "RevokeRefreshToken"}
    /\ last.fault = {"commit"}
    /\ last.err # NoError
    /\ last.tx.commits = 1
    /\ last.tx.rollbacks = 0

\* C39: a successful userService.Update changes nothing but the email of
\* the user it names, and that only to a non-empty requested email: every
\* user's password hash, role, isVerified flag and id and every refresh
\* token are as before; and a login with the email a user now has and the
\* password of the registration succeeds whatever Update and VerifyEmail
\* calls came before.
UpdateKeepsCredentials ==
    /\ (last.op = "Update" /\ last.err = NoError) =>
          /\ refreshTokens = pre.refreshTokens
          /\ \A u \in pre.users :
                \E v \in users :
                    /\ v = [u EXCEPT !.email = v.email]
                    /\ v.email # u.email =>
                          u.id = last.userId /\ v.email = last.email /\ last.email # << >>
          /\ Cardinality(users) = Cardinality(pre.users)
    /\ (/\ last.op = "Verify"
        /\ last.fault = {}
        /\ last.password \in RegisterPasswords
        /\ \E u \in pre.users : ~u.deleted /\ u.email = last.email) =>
          last.err = NoError

\* an Update gave a new email to a verified user who holds a refresh token
EmailChangedWhileLoggedIn ==
    /\ last.op = "Update"
    /\ last.err = NoError
    /\ \E u \in pre.users, v \in users :
          /\ u.id = last.userId /\ v.id = last.userId
          /\ v.email # u.email
          /\ v.isVerified
          /\ \E r \in refreshTokens : r.userId = v.id

====
